---- MODULE Spec2Model ----
(***************************************************************************)
(* A model of the ak interpreter: the symbol interner (sym.rs), the K      *)
(* value algebra (k/mod.rs, k/arith.rs), the global environment            *)
(* (environ.rs), the tree-walking evaluator (interpreter.rs), the          *)
(* tokenizer (tok/mod.rs, tok/stream.rs), the parser (parser.rs) and the   *)
(* function run() that chains them (main.rs).                              *)
(*                                                                         *)
(* The specifications share the variables:                                 *)
(*   SpecIntern  sequences of Interner::intern calls                       *)
(*   SpecArith   one application of a binary operator to two K values      *)
(*   Spec        sequences of top-level evaluations ASTNode::interpret     *)
(*   SpecVerbs   the same, on inputs that exercise the verbs , and @       *)
(*   SpecTok     sequences of Tokenizer::next calls on one input           *)
(*   SpecAdverbs the same, on inputs made of the adverb bytes              *)
(*   SpecStrings the same, on inputs made of quotes, backslashes, letters  *)
(*   SpecStream  sequences of calls of the methods of one ByteStream       *)
(*   SpecParse   one run() of an input made of numbers and verbs           *)
(*   SpecGroups  one run() of an input made of brackets, slots and a verb  *)
(***************************************************************************)
EXTENDS Integers, Sequences, FiniteSets, TLC

VARIABLES
    INTERNER,    \* sym.rs: the Interner behind the INTERNER lock
    issued,      \* history: byte string -> handle its first intern returned
    lastName,    \* history: argument of the last intern call
    lastSym,     \* history: handle returned by the last intern call
    GLOBAL_ENV,  \* environ.rs: Environment.map, Sym -> K
    prevEnv,     \* history: GLOBAL_ENV before the last top-level evaluation
    evalAst,     \* history: the AST of the last top-level evaluation
    evalRes,     \* history: its result
    evalLog,     \* history: the steps the last evaluation took, in order
    assigned,    \* history: name -> value of the latest define_variable call
    aop, ax, ay, \* SpecArith: operator and operands
    ares,        \* SpecArith: the result, or NotRun
    tokenizer,   \* tok/mod.rs: the Tokenizer, [stream, start]
    items,       \* history: the items Tokenizer::next has yielded, in order
    steps,       \* history: the bytes next() dispatched on, and what came of each
    atEnd,       \* history: the last next() returned None
    cursor,      \* tok/stream.rs: a ByteStream, [slice, index]
    returned,    \* history: what every ByteStream::next on cursor returned
    lastCall,    \* history: the last method called on cursor, and its result
    parseRes,    \* main.rs: what run() made of its input up to the parse
    threads,     \* sym.rs: the threads that use INTERNER, and where each is
    rwlock       \* sym.rs: the RwLock around INTERNER, [writer, readers]

vars == <<INTERNER, issued, lastName, lastSym, GLOBAL_ENV, prevEnv, evalAst,
          evalRes, evalLog, assigned, aop, ax, ay, ares, tokenizer, items,
          steps, atEnd, cursor, returned, lastCall, parseRes, threads, rwlock>>

internVars == <<INTERNER, issued, lastName, lastSym>>
evalVars == <<GLOBAL_ENV, prevEnv, evalAst, evalRes, evalLog, assigned>>
arithVars == <<aop, ax, ay, ares>>
tokVars == <<tokenizer, items, steps, atEnd>>
streamVars == <<cursor, returned, lastCall>>
threadVars == <<threads, rwlock>>

(***************************************************************************)
(* Bounds of the model.                                                    *)
(***************************************************************************)
MaxListLen == 2      \* longest int/float/general list operand
MaxInterns == 3      \* intern calls that allocate, per behaviour
MaxNameLen == 1      \* longest short byte string interned
HeadRoom == 1        \* free bytes left in the first block by the long symbol
MaxSlots == 2        \* slots of an enumerated expression list
MaxSrcLen == 4       \* bytes of the longest tokenizer input
MaxStreamLen == 3    \* bytes of the longest input of a byte cursor
MaxPastEnd == 2      \* calls of next() after the one that reached the end
MaxExprLen == 5      \* bytes of the longest input made of numbers and verbs
MaxGroupLen == 4     \* bytes of the longest input made of brackets and slots
MaxThreads == 2      \* threads that intern and read symbols concurrently

(***************************************************************************)
(* Sequence helpers.                                                       *)
(***************************************************************************)
SeqsUpTo(S, n) == UNION {[1..k -> S] : k \in 0..n}

(***************************************************************************)
(* K values (k/mod.rs).  A value is [t |-> tag, v |-> payload].            *)
(* f64 payloads are exact extended rationals <<n, d>> in lowest terms with *)
(* d >= 0: d = 0 stands for +inf (n = 1), -inf (n = -1) and NaN (n = 0).   *)
(***************************************************************************)
K0(t, v) == [t |-> t, v |-> v]

KNil == K0("Nil", 0)
KChar(c) == K0("Char", c)
KInt(i) == K0("Int", i)
KFloat(f) == K0("Float", f)
KSym(s) == K0("Sym", s)
KName(s) == K0("Name", s)
KVerb(v) == K0("Verb", v)
KAdverb(a) == K0("Adverb", a)
KCharList(l) == K0("CharList", l)
KIntList(l) == K0("IntList", l)
KFloatList(l) == K0("FloatList", l)
KSymList(l) == K0("SymList", l)
KGenList(l) == K0("GenList", l)

\* KResult / Result<K, RuntimeErrorCode>
Ok(k) == [ok |-> TRUE, v |-> k, e |-> "none"]
Err(code) == [ok |-> FALSE, v |-> KNil, e |-> code]

Abs(n) == IF n < 0 THEN -n ELSE n
Sgn(n) == IF n < 0 THEN -1 ELSE IF n > 0 THEN 1 ELSE 0

RECURSIVE GCD(_, _)
GCD(a, b) == IF b = 0 THEN a ELSE GCD(b, a % b)

\* the f64 nearest to the rational n/d (exact within the model's range)
F64(n, d) ==
    IF d = 0 THEN <<Sgn(n), 0>>
    ELSE LET g == GCD(Abs(n), Abs(d))
         IN  <<(Sgn(d) * n) \div g, Abs(d) \div g>>

AsF64(i) == <<i, 1>>

NaN == <<0, 0>>
IsNaN(f) == f = NaN
IsInf(f) == f[2] = 0 /\ f[1] # 0

FNeg(a) == <<-a[1], a[2]>>

FAdd(a, b) ==
    IF IsNaN(a) \/ IsNaN(b) THEN NaN
    ELSE IF IsInf(a) /\ IsInf(b) THEN (IF a = b THEN a ELSE NaN)
    ELSE IF IsInf(a) THEN a
    ELSE IF IsInf(b) THEN b
    ELSE F64(a[1] * b[2] + b[1] * a[2], a[2] * b[2])

FMul(a, b) ==
    IF IsNaN(a) \/ IsNaN(b) THEN NaN
    ELSE IF IsInf(a) \/ IsInf(b)
         THEN (IF a[1] = 0 \/ b[1] = 0 THEN NaN ELSE <<Sgn(a[1]) * Sgn(b[1]), 0>>)
    ELSE F64(a[1] * b[1], a[2] * b[2])

FDiv(a, b) ==
    IF IsNaN(a) \/ IsNaN(b) THEN NaN
    ELSE IF IsInf(a) /\ IsInf(b) THEN NaN
    ELSE IF IsInf(a) THEN <<a[1] * (IF b[1] < 0 THEN -1 ELSE 1), 0>>
    ELSE IF IsInf(b) THEN <<0, 1>>
    ELSE F64(a[1] * b[2], a[2] * b[1])

\* the primitive i64 operators + - * (k/arith.rs uses them through $op)
i64_op(op, a, b) ==
    CASE op = "Add" -> a + b
      [] op = "Sub" -> a - b
      [] op = "Mul" -> a * b

\* the primitive f64 operators + - * /
f64_op(op, a, b) ==
    CASE op = "Add" -> FAdd(a, b)
      [] op = "Sub" -> FAdd(a, FNeg(b))
      [] op = "Mul" -> FMul(a, b)
      [] op = "Div" -> FDiv(a, b)

ScalarTags == {"Char", "Int", "Float", "Sym"}

ListTagOf(t) ==
    CASE t = "Char" -> "CharList"
      [] t = "Int" -> "IntList"
      [] t = "Float" -> "FloatList"
      [] t = "Sym" -> "SymList"

\* a conversion that always makes the general list
FromVec_general(v) == KGenList(v)

\* impl From<Vec<K>> for K: a non-empty vector of scalars of one of the four
\* kinds becomes the homogeneous list, anything else a general list
FromVec(v) ==
    IF /\ Len(v) > 0
       /\ v[1].t \in ScalarTags
       /\ \A i \in 2..Len(v) : v[i].t = v[1].t
    THEN K0(ListTagOf(v[1].t), [i \in 1..Len(v) |-> v[i].v])
    ELSE KGenList(v)

\* .collect::<Result<Vec<_>, _>>()?.into(): the first error, or the vector
Collect(rs) ==
    IF \E i \in 1..Len(rs) : ~rs[i].ok
    THEN LET first == CHOOSE i \in 1..Len(rs) :
                          ~rs[i].ok /\ \A j \in 1..(i - 1) : rs[j].ok
         IN  Err(rs[first].e)
    ELSE Ok(FromVec([i \in 1..Len(rs) |-> rs[i].v]))

RECURSIVE K_op_i64(_, _, _), i64_op_K(_, _, _), K_op_f64(_, _, _),
          f64_op_K(_, _, _), K_op_K(_, _, _)

\* impl $trait<f64> for &K
K_op_f64(op, x, rhs) ==
    CASE x.t = "Int" -> Ok(KFloat(f64_op(op, AsF64(x.v), rhs)))
      [] x.t = "Float" -> Ok(KFloat(f64_op(op, x.v, rhs)))
      [] x.t = "IntList" ->
            Ok(KFloatList([i \in 1..Len(x.v) |-> f64_op(op, AsF64(x.v[i]), rhs)]))
      [] x.t = "FloatList" ->
            Ok(KFloatList([i \in 1..Len(x.v) |-> f64_op(op, x.v[i], rhs)]))
      [] x.t = "GenList" ->
            Collect([i \in 1..Len(x.v) |-> K_op_f64(op, x.v[i], rhs)])
      [] OTHER -> Err("Type")

\* f64_op_K that gives an Int back when the scalar result is a whole number
f64_op_K_whole(op, lhs, y) ==
    LET whole(f) == IF f[2] = 1 THEN KInt(f[1]) ELSE KFloat(f)
    IN  CASE y.t = "Int" -> Ok(whole(f64_op(op, lhs, AsF64(y.v))))
          [] y.t = "Float" -> Ok(whole(f64_op(op, lhs, y.v)))
          [] y.t = "IntList" ->
                Ok(KFloatList([i \in 1..Len(y.v) |-> f64_op(op, lhs, AsF64(y.v[i]))]))
          [] y.t = "FloatList" ->
                Ok(KFloatList([i \in 1..Len(y.v) |-> f64_op(op, lhs, y.v[i])]))
          [] y.t = "GenList" ->
                Collect([i \in 1..Len(y.v) |-> f64_op_K(op, lhs, y.v[i])])
          [] OTHER -> Err("Type")

\* impl $trait<&K> for f64
f64_op_K(op, lhs, y) ==
    CASE y.t = "Int" -> Ok(KFloat(f64_op(op, lhs, AsF64(y.v))))
      [] y.t = "Float" -> Ok(KFloat(f64_op(op, lhs, y.v)))
      [] y.t = "IntList" ->
            Ok(KFloatList([i \in 1..Len(y.v) |-> f64_op(op, lhs, AsF64(y.v[i]))]))
      [] y.t = "FloatList" ->
            Ok(KFloatList([i \in 1..Len(y.v) |-> f64_op(op, lhs, y.v[i])]))
      [] y.t = "GenList" ->
            Collect([i \in 1..Len(y.v) |-> f64_op_K(op, lhs, y.v[i])])
      [] OTHER -> Err("Type")

\* impl $trait<i64> for &K; for Div: self / rhs as f64
K_op_i64(op, x, rhs) ==
    IF op = "Div" THEN K_op_f64(op, x, AsF64(rhs))
    ELSE CASE x.t = "Int" -> Ok(KInt(i64_op(op, x.v, rhs)))
           [] x.t = "Float" -> Ok(KFloat(f64_op(op, x.v, AsF64(rhs))))
           [] x.t = "IntList" ->
                 Ok(KIntList([i \in 1..Len(x.v) |-> i64_op(op, x.v[i], rhs)]))
           [] x.t = "FloatList" ->
                 Ok(KFloatList([i \in 1..Len(x.v) |-> f64_op(op, x.v[i], AsF64(rhs))]))
           [] x.t = "GenList" ->
                 Collect([i \in 1..Len(x.v) |-> K_op_i64(op, x.v[i], rhs)])
           [] OTHER -> Err("Type")

\* i64_op_K with the operands of the IntList arm exchanged
i64_op_K_swapped(op, lhs, y) ==
    IF op = "Div" THEN f64_op_K(op, AsF64(lhs), y)
    ELSE CASE y.t = "Int" -> Ok(KInt(i64_op(op, lhs, y.v)))
           [] y.t = "Float" -> Ok(KFloat(f64_op(op, AsF64(lhs), y.v)))
           [] y.t = "IntList" ->
                 Ok(KIntList([i \in 1..Len(y.v) |-> i64_op(op, y.v[i], lhs)]))
           [] y.t = "FloatList" ->
                 Ok(KFloatList([i \in 1..Len(y.v) |-> f64_op(op, AsF64(lhs), y.v[i])]))
           [] y.t = "GenList" ->
                 Collect([i \in 1..Len(y.v) |-> i64_op_K(op, lhs, y.v[i])])
           [] OTHER -> Err("Type")

\* impl $trait<&K> for i64; for Div: self as f64 / rhs
i64_op_K(op, lhs, y) ==
    IF op = "Div" THEN f64_op_K(op, AsF64(lhs), y)
    ELSE CASE y.t = "Int" -> Ok(KInt(i64_op(op, lhs, y.v)))
           [] y.t = "Float" -> Ok(KFloat(f64_op(op, AsF64(lhs), y.v)))
           [] y.t = "IntList" ->
                 Ok(KIntList([i \in 1..Len(y.v) |-> i64_op(op, lhs, y.v[i])]))
           [] y.t = "FloatList" ->
                 Ok(KFloatList([i \in 1..Len(y.v) |-> f64_op(op, AsF64(lhs), y.v[i])]))
           [] y.t = "GenList" ->
                 Collect([i \in 1..Len(y.v) |-> i64_op_K(op, lhs, y.v[i])])
           [] OTHER -> Err("Type")

\* a length test that lets zip truncate to the shorter left operand
SameLen_zip(x, y) == Len(x.v) <= Len(y.v)

\* the length test of every list/list arm
SameLen(x, y) == Len(x.v) = Len(y.v)

\* impl $trait for &K (impl_k_arith), and impl Div for &K
K_op_K(op, x, y) ==
    CASE x.t = "Int" -> i64_op_K(op, x.v, y)
      [] x.t = "Float" -> f64_op_K(op, x.v, y)

      [] x.t = "IntList" /\ y.t = "IntList" ->
            IF SameLen(x, y)
            THEN IF op = "Div"
                 THEN Ok(KFloatList([i \in 1..Len(x.v) |->
                          f64_op(op, AsF64(x.v[i]), AsF64(y.v[i]))]))
                 ELSE Ok(KIntList([i \in 1..Len(x.v) |->
                          i64_op(op, x.v[i], y.v[i])]))
            ELSE Err("Length")
      [] x.t = "IntList" /\ y.t = "FloatList" ->
            IF SameLen(x, y)
            THEN Ok(KFloatList([i \in 1..Len(x.v) |->
                     f64_op(op, AsF64(x.v[i]), y.v[i])]))
            ELSE Err("Length")
      [] x.t = "IntList" /\ y.t = "GenList" ->
            IF SameLen(x, y)
            THEN Collect([i \in 1..Len(x.v) |-> i64_op_K(op, x.v[i], y.v[i])])
            ELSE Err("Length")
      [] x.t = "IntList" /\ y.t \notin {"IntList", "FloatList", "GenList"} ->
            Collect([i \in 1..Len(x.v) |-> i64_op_K(op, x.v[i], y)])

      [] x.t = "FloatList" /\ y.t = "IntList" ->
            IF SameLen(x, y)
            THEN Ok(KFloatList([i \in 1..Len(x.v) |->
                     f64_op(op, x.v[i], AsF64(y.v[i]))]))
            ELSE Err("Length")
      [] x.t = "FloatList" /\ y.t = "FloatList" ->
            IF SameLen(x, y)
            THEN Ok(KFloatList([i \in 1..Len(x.v) |->
                     f64_op(op, x.v[i], y.v[i])]))
            ELSE Err("Length")
      [] x.t = "FloatList" /\ y.t = "GenList" ->
            IF SameLen(x, y)
            THEN Collect([i \in 1..Len(x.v) |-> f64_op_K(op, x.v[i], y.v[i])])
            ELSE Err("Length")
      [] x.t = "FloatList" /\ y.t \notin {"IntList", "FloatList", "GenList"} ->
            Collect([i \in 1..Len(x.v) |-> f64_op_K(op, x.v[i], y)])

      [] x.t = "GenList" /\ y.t = "IntList" ->
            IF SameLen(x, y)
            THEN Collect([i \in 1..Len(x.v) |-> K_op_i64(op, x.v[i], y.v[i])])
            ELSE Err("Length")
      [] x.t = "GenList" /\ y.t = "FloatList" ->
            IF SameLen(x, y)
            THEN Collect([i \in 1..Len(x.v) |-> K_op_f64(op, x.v[i], y.v[i])])
            ELSE Err("Length")
      [] x.t = "GenList" /\ y.t = "GenList" ->
            IF SameLen(x, y)
            THEN Collect([i \in 1..Len(x.v) |-> K_op_K(op, x.v[i], y.v[i])])
            ELSE Err("Length")
      [] x.t = "GenList" /\ y.t \notin {"IntList", "FloatList", "GenList"} ->
            Collect([i \in 1..Len(x.v) |-> K_op_K(op, x.v[i], y)])

      [] OTHER -> Err("Type")

\* impl Neg for &K
RECURSIVE K_neg(_)
K_neg(x) ==
    CASE x.t = "Int" -> Ok(KInt(-x.v))
      [] x.t = "Float" -> Ok(KFloat(FNeg(x.v)))
      [] x.t = "IntList" -> Ok(KIntList([i \in 1..Len(x.v) |-> -x.v[i]]))
      [] x.t = "FloatList" -> Ok(KFloatList([i \in 1..Len(x.v) |-> FNeg(x.v[i])]))
      [] x.t = "GenList" -> Collect([i \in 1..Len(x.v) |-> K_neg(x.v[i])])
      [] OTHER -> Err("Type")

(***************************************************************************)
(* SpecArith: one operator applied to operands drawn from a bounded set of *)
(* K values.                                                               *)
(***************************************************************************)
Ops == {"Add", "Sub", "Mul", "Div"}

IntVals == {0, 1, 2}
FloatVals == {<<1, 2>>, <<2, 1>>}

NotRun == [kind |-> "none", r |-> Err("none")]

\* the members of general lists
GenElems == {KInt(1), KChar(97), KIntList(<<>>), KIntList(<<1, 2>>), KGenList(<<>>)}

NumScalars == {KInt(i) : i \in IntVals} \cup {KFloat(f) : f \in FloatVals}

NumLists ==
    {KIntList(l) : l \in SeqsUpTo(IntVals, MaxListLen)}
        \cup {KFloatList(l) : l \in SeqsUpTo(FloatVals, MaxListLen)}

\* general lists as From<Vec<K>> leaves them: never a vector that it would
\* have turned into a homogeneous list
GenLists == {KGenList(l) : l \in {m \in SeqsUpTo(GenElems, MaxListLen) : FromVec(m) = KGenList(m)}}

NonNumeric ==
    {KNil, KChar(97), KSym(0), KName(0), KVerb("Plus"), KAdverb("Slash"),
     KCharList(<<>>), KCharList(<<97, 98>>), KSymList(<<0, 1>>)}

Operands == NumScalars \cup NumLists \cup GenLists \cup NonNumeric

\* the variables of the components a specification leaves alone
InternIdle ==
    /\ INTERNER = [map |-> {}, vec |-> <<>>, head |-> [buf |-> <<>>, cap |-> 0],
                   rest |-> <<>>]
    /\ issued = {}
    /\ lastName = <<>>
    /\ lastSym = -1

EvalIdle ==
    /\ GLOBAL_ENV = <<>>
    /\ prevEnv = <<>>
    /\ evalAst = [kind |-> "None"]
    /\ evalRes = [ok |-> TRUE, v |-> KNil, e |-> "not evaluated", loc |-> 0]
    /\ evalLog = <<>>
    /\ assigned = <<>>

ArithIdle ==
    /\ aop = "Add"
    /\ ax = KNil
    /\ ay = KNil
    /\ ares = NotRun

TokIdle ==
    /\ tokenizer = [stream |-> [slice |-> <<>>, index |-> -1], start |-> 0]
    /\ items = <<>>
    /\ steps = <<>>
    /\ atEnd = FALSE

StreamIdle ==
    /\ cursor = [slice |-> <<>>, index |-> -1]
    /\ returned = <<>>
    /\ lastCall = [op |-> "none"]

ParseIdle == parseRes = [res |-> "none"]

ThreadsIdle ==
    /\ threads = <<>>
    /\ rwlock = [writer |-> 0, readers |-> {}]

InitArith ==
    /\ aop \in Ops
    /\ ax \in Operands
    /\ ay \in Operands
    /\ ares = NotRun
    /\ InternIdle
    /\ EvalIdle
    /\ TokIdle
    /\ StreamIdle
    /\ ParseIdle
    /\ ThreadsIdle

\* &args[0] OP &args[1]
ApplyBinary ==
    /\ ares = NotRun
    /\ ares' = [kind |-> "bin", r |-> K_op_K(aop, ax, ay)]
    /\ UNCHANGED <<aop, ax, ay, internVars, evalVars, tokVars, streamVars,
                    parseRes, threadVars>>

\* -&args[0]
ApplyNeg ==
    /\ ares = NotRun
    /\ ares' = [kind |-> "neg", r |-> K_neg(ax)]
    /\ UNCHANGED <<aop, ax, ay, internVars, evalVars, tokVars, streamVars,
                    parseRes, threadVars>>

NextArith == ApplyBinary \/ ApplyNeg

SpecArith == InitArith /\ [][NextArith]_vars

(***************************************************************************)
(* Claims about the arithmetic engine, checked under SpecArith.            *)
(***************************************************************************)
IsNumScalar(k) == k.t \in {"Int", "Float"}
IsNumList(k) == k.t \in {"IntList", "FloatList"}
IsList(k) == k.t \in {"CharList", "IntList", "FloatList", "SymList", "GenList"}

\* the i-th element of a list value, as a value
ElemOf(l, i) ==
    CASE l.t = "CharList" -> KChar(l.v[i])
      [] l.t = "IntList" -> KInt(l.v[i])
      [] l.t = "FloatList" -> KFloat(l.v[i])
      [] l.t = "SymList" -> KSym(l.v[i])
      [] l.t = "GenList" -> l.v[i]

RanBinary == ares.kind = "bin"

ScalarLeft == RanBinary /\ IsNumScalar(ax) /\ IsNumList(ay)
ScalarRight == RanBinary /\ IsNumList(ax) /\ IsNumScalar(ay)

\* C7: a scalar broadcast against an int or float list succeeds with a list
\* of the list operand's length whose i-th element is the scalar result of
\* the same operator on the scalar and the i-th element, operands in order.
C7_Broadcast ==
    /\ ScalarLeft =>
          /\ ares.r.ok
          /\ IsList(ares.r.v)
          /\ Len(ares.r.v.v) = Len(ay.v)
          /\ \A i \in 1..Len(ay.v) :
                Ok(ElemOf(ares.r.v, i)) = K_op_K(aop, ax, ElemOf(ay, i))
    /\ ScalarRight =>
          /\ ares.r.ok
          /\ IsList(ares.r.v)
          /\ Len(ares.r.v.v) = Len(ax.v)
          /\ \A i \in 1..Len(ax.v) :
                Ok(ElemOf(ares.r.v, i)) = K_op_K(aop, ElemOf(ax, i), ay)

C7_Witness ==
    /\ ScalarLeft
    /\ aop = "Sub"
    /\ ax = KInt(2)
    /\ ay = KIntList(<<0, 1>>)
    /\ ares.r = Ok(KIntList(<<2, 1>>))

\* C8: list operands (int, float or general) of different lengths give a
\* Length error, never a list.
C8_LengthError ==
    (/\ RanBinary
     /\ ax.t \in {"IntList", "FloatList", "GenList"}
     /\ ay.t \in {"IntList", "FloatList", "GenList"}
     /\ Len(ax.v) # Len(ay.v))
        => ares.r = Err("Length")

C8_Witness ==
    /\ RanBinary
    /\ ax = KIntList(<<1, 2>>)
    /\ ay = KGenList(<<KIntList(<<>>)>>)
    /\ ares.r = Err("Length")

IsTypeErrorOperand(k) ==
    k.t \in {"Char", "Sym", "Nil", "Name", "Verb", "Adverb", "CharList", "SymList"}

\* C9: an operand that is a char, symbol, nil, name, verb, adverb, char list
\* or symbol list makes the operation fail with a Type error, whatever the
\* other operand is.
C9_TypeError ==
    (RanBinary /\ (IsTypeErrorOperand(ax) \/ IsTypeErrorOperand(ay)))
        => ares.r = Err("Type")

\* the variant the scalar promotion rule gives a scalar/list broadcast
PromotedListTag(op, a, l) ==
    IF op # "Div" /\ a.t = "Int" /\ l.t = "IntList" THEN "IntList" ELSE "FloatList"

\* C10: a scalar broadcast returns an IntList for + - * on Int and IntList
\* and a FloatList otherwise, on whichever side the scalar is, for lists of
\* every length including 0.
C10_BroadcastVariant ==
    /\ ScalarLeft => ares.r.ok /\ ares.r.v.t = PromotedListTag(aop, ax, ay)
    /\ ScalarRight => ares.r.ok /\ ares.r.v.t = PromotedListTag(aop, ay, ax)

\* a numeric scalar as the f64 the promotion makes of it
Promoted(k) == IF k.t = "Int" THEN AsF64(k.v) ELSE k.v

\* C11: on Int and Float scalars + - * give the Int result when both
\* operands are Int and the Float result of the promoted operands otherwise;
\* % gives the Float quotient of the promoted operands for every pair, Int
\* and Int with an exact quotient included.
C11_ScalarPromotion ==
    (RanBinary /\ IsNumScalar(ax) /\ IsNumScalar(ay)) =>
        ares.r = (IF aop # "Div" /\ ax.t = "Int" /\ ay.t = "Int"
                  THEN Ok(KInt(i64_op(aop, ax.v, ay.v)))
                  ELSE Ok(KFloat(f64_op(aop, Promoted(ax), Promoted(ay)))))

\* 2%1 is the Float 2
C11_Witness ==
    /\ RanBinary
    /\ aop = "Div"
    /\ ax = KInt(2)
    /\ ay = KInt(1)
    /\ ares.r = Ok(KFloat(<<2, 1>>))

(***************************************************************************)
(* The symbol interner (sym.rs).                                           *)
(* A block is a Vec<u8>: [buf |-> bytes, cap |-> capacity].  Blocks are    *)
(* numbered in allocation order: block k is rest[k] while k <= Len(rest),  *)
(* and the head otherwise.  A &'static [u8] is the place it points at:     *)
(* [blk |-> block, start |-> offset, len |-> length].                      *)
(***************************************************************************)
INIT_SIZE == 4096
MAX_SIZE == 64 * 1048576

RECURSIVE PowerOfTwoFrom(_, _)
PowerOfTwoFrom(p, n) == IF p >= n THEN p ELSE PowerOfTwoFrom(2 * p, n)

\* usize::checked_next_power_of_two
next_power_of_two(n) == PowerOfTwoFrom(1, n)

Min(a, b) == IF a < b THEN a ELSE b
Max(a, b) == IF a > b THEN a ELSE b

\* Vec::with_capacity
with_capacity(cap) == [buf |-> <<>>, cap |-> cap]

\* Interner::new
Interner_new ==
    [map |-> {}, vec |-> <<>>, head |-> with_capacity(INIT_SIZE), rest |-> <<>>]

BlockOf(I, k) == IF k <= Len(I.rest) THEN I.rest[k] ELSE I.head

\* reading the bytes behind a stored slice
Deref(I, slice) ==
    SubSeq(BlockOf(I, slice.blk).buf, slice.start + 1, slice.start + slice.len)

\* an alloc that always appends to the head, growing it when it is full
alloc_grow(I, name) ==
    [I |-> [I EXCEPT !.head.buf = I.head.buf \o name],
     slice |-> [blk |-> Len(I.rest) + 1, start |-> Len(I.head.buf),
                len |-> Len(name)]]

\* Interner::alloc: the interner after the call and the slice returned
alloc(I, name) ==
    LET cap == I.head.cap
        retire == Len(name) > cap - Len(I.head.buf)
        new_cap == next_power_of_two(Max(Min(cap, MAX_SIZE \div 2), Len(name)) + 1)
        head1 == IF retire THEN with_capacity(new_cap) ELSE I.head
        rest1 == IF retire THEN Append(I.rest, I.head) ELSE I.rest
        start == Len(head1.buf)
    IN  [I |-> [I EXCEPT !.head = [head1 EXCEPT !.buf = head1.buf \o name],
                         !.rest = rest1],
         slice |-> [blk |-> Len(rest1) + 1, start |-> start, len |-> Len(name)]]

\* HashMap::get on the byte content of the keys
map_get(I, name) == {e \in I.map : Deref(I, e.key) = name}

\* intern without the lookup of the existing handle
intern_nocheck(I, name) ==
    LET a == alloc(I, name)
        sym == Len(I.vec)
    IN  [I |-> [a.I EXCEPT !.map = a.I.map \cup {[key |-> a.slice, sym |-> sym]},
                           !.vec = Append(a.I.vec, a.slice)],
         sym |-> sym]

\* Interner::intern: the interner after the call and the handle returned
intern(I, name) ==
    IF map_get(I, name) # {}
    THEN [I |-> I, sym |-> (CHOOSE e \in map_get(I, name) : TRUE).sym]
    ELSE LET a == alloc(I, name)
             sym == Len(I.vec)
         IN  [I |-> [a.I EXCEPT !.map = a.I.map \cup {[key |-> a.slice, sym |-> sym]},
                                !.vec = Append(a.I.vec, a.slice)],
              sym |-> sym]

\* Interner::lookup
lookup(I, id) == Deref(I, I.vec[id + 1])

(***************************************************************************)
(* SpecIntern: any sequence of intern calls on a fresh interner.           *)
(***************************************************************************)
Bytes == {97, 98}

ShortNames == SeqsUpTo(Bytes, MaxNameLen)

\* a symbol that leaves HeadRoom free bytes in the first block, and one
\* longer than the first block
LongSym == [i \in 1..(INIT_SIZE - HeadRoom) |-> 120]
BigSym == [i \in 1..(INIT_SIZE + 1) |-> 121]

InternNames == ShortNames \cup {LongSym, BigSym}

InitIntern ==
    /\ INTERNER = Interner_new
    /\ issued = {}
    /\ lastName = <<>>
    /\ lastSym = -1
    /\ EvalIdle
    /\ ArithIdle
    /\ TokIdle
    /\ StreamIdle
    /\ ParseIdle
    /\ ThreadsIdle

\* Sym::new(string) under the write lock
Intern(name) ==
    LET r == intern(INTERNER, name)
    IN  /\ Len(r.I.vec) <= MaxInterns
        /\ INTERNER' = r.I
        /\ issued' = issued \cup {<<name, r.sym>>}
        /\ lastName' = name
        /\ lastSym' = r.sym
        /\ UNCHANGED <<evalVars, arithVars, tokVars, streamVars, parseRes,
                       threadVars>>

NextIntern == \E name \in InternNames : Intern(name)

SpecIntern == InitIntern /\ [][NextIntern]_vars

\* C1: every byte string ever interned still interns to the handle it got
\* first, the handle looks up to exactly its bytes, two different strings
\* never share a handle, and the same holds of the next intern of any string.
C1_InternStable ==
    /\ \A p \in issued :
          /\ intern(INTERNER, p[1]).sym = p[2]
          /\ lookup(INTERNER, p[2]) = p[1]
    /\ \A p, q \in issued : p[2] = q[2] => p[1] = q[1]
    /\ \A s \in InternNames :
          LET r == intern(INTERNER, s)
          IN  /\ lookup(r.I, r.sym) = s
              /\ intern(r.I, s) = r

\* a repeated intern, after the first block was retired, of a string stored
\* in the retired block
C1_Witness ==
    /\ Len(INTERNER.rest) >= 1
    /\ lastSym >= 0
    /\ lastSym + 1 < Len(INTERNER.vec)
    /\ INTERNER.vec[lastSym + 1].blk = 1
    /\ lastName # <<>>
    /\ lookup(INTERNER, lastSym) = lastName

(***************************************************************************)
(* AST nodes (parser.rs).  A slot of an argument or expression list is a   *)
(* node or None.                                                           *)
(***************************************************************************)
None == [kind |-> "None"]
Expr(s, e, k) == [kind |-> "Expr", s |-> s, e |-> e, k |-> k]
Apply(s, e, value, args) ==
    [kind |-> "Apply", s |-> s, e |-> e, value |-> value, args |-> args]
ExprList(s, e, elist) == [kind |-> "ExprList", s |-> s, e |-> e, elist |-> elist]

(***************************************************************************)
(* The environment (environ.rs).                                           *)
(***************************************************************************)
\* Environment::new
Environment_new == <<>>

\* define that keeps an existing binding
define_keepfirst(env, name, value) ==
    [n \in DOMAIN env \cup {name} |-> IF n \in DOMAIN env THEN env[n] ELSE value]

\* Environment::define: self.map.insert(name, value.clone())
define(env, name, value) ==
    [n \in DOMAIN env \cup {name} |-> IF n = name THEN value ELSE env[n]]

\* Environment::get
get(env, name) ==
    IF name \in DOMAIN env THEN [some |-> TRUE, v |-> env[name]]
    ELSE [some |-> FALSE, v |-> KNil]

(***************************************************************************)
(* The evaluator (interpreter.rs).  The world an evaluation runs in is     *)
(* [env, I, log]: the global environment, the interner and the history of  *)
(* the evaluation; every function returns the world it leaves and its      *)
(* Result<K, RuntimeError>, or the panic that ended the process.           *)
(***************************************************************************)
ROk(k) == [ok |-> TRUE, v |-> k, e |-> "none", loc |-> 0]
\* RuntimeError::new
RErr(location, code) == [ok |-> FALSE, v |-> KNil, e |-> code, loc |-> location]
\* todo!(...)
Panic == [ok |-> FALSE, v |-> KNil, e |-> "panic", loc |-> 0]

\* .map_err(|e| RuntimeError::new(start, e))
map_err(r, start) == IF r.ok THEN ROk(r.v) ELSE RErr(start, r.e)

Logged(w, ev) == [w EXCEPT !.log = Append(w.log, ev)]
\* a node is known in the history by its kind and span, which no two nodes
\* of one parse share
NodeId(node) == <<node.kind, node.s, node.e>>
EnterEv(node) == [op |-> "enter", id |-> NodeId(node)]
ExitEv(node, r) == [op |-> "exit", id |-> NodeId(node), r |-> r]
DefineEv(name, value) == [op |-> "define", name |-> name, value |-> value]
ApplyEv(value, args) == [op |-> "apply", id |-> NodeId(value), args |-> args]

\* a define_variable whose write is held back until the evaluation succeeds
define_variable_deferred(w, name, value) == Logged(w, DefineEv(name, value))

\* define_variable, under the write lock of GLOBAL_ENV
define_variable(w, name, value) ==
    Logged([w EXCEPT !.env = define(w.env, name, value)], DefineEv(name, value))

\* get_variable
get_variable(w, name) == get(w.env, name)

\* the byte strings of the type tags of Verb::At
TypeTag(k) ==
    CASE k.t = "Nil" -> <<110, 105, 108>>
      [] k.t = "Char" -> <<99>>
      [] k.t = "Int" -> <<105>>
      [] k.t = "Float" -> <<102>>
      [] k.t = "Sym" -> <<110>>
      [] k.t = "Name" -> <<110>>
      [] k.t = "Verb" -> <<118>>
      [] k.t = "Adverb" -> <<97>>
      [] k.t = "CharList" -> <<67>>
      [] k.t = "IntList" -> <<73>>
      [] k.t = "FloatList" -> <<70>>
      [] k.t = "SymList" -> <<78>>
      [] k.t = "GenList" -> <<108>>

\* (0..*x).collect()
Range0(x) == [i \in 1..(IF x > 0 THEN x ELSE 0) |-> i - 1]

\* the operator the arity 2 arm of Plus, Minus, Star or Percent applies
ArithOp(v) ==
    CASE v = "Plus" -> "Add"
      [] v = "Minus" -> "Sub"
      [] v = "Star" -> "Mul"
      [] v = "Percent" -> "Div"

\* the match of ASTNode::apply on the evaluated callee k; the arms of the
\* four arithmetic verbs differ in the operator of arity 2 and in arity 1,
\* which is neg for Minus and todo!() for the others
apply_verb(k, start, args, w) ==
    LET n == Len(args)
        out(r) == [w |-> w, r |-> r]
    IN  IF k.t # "Verb" THEN out(RErr(start, "Nyi"))
        ELSE CASE k.v \in {"Plus", "Minus", "Star", "Percent"} ->
                    IF n = 0 THEN out(ROk(k))
                    ELSE IF n = 1
                    THEN IF k.v = "Minus" THEN out(map_err(K_neg(args[1]), start))
                         ELSE out(Panic)
                    ELSE IF n = 2
                    THEN out(map_err(K_op_K(ArithOp(k.v), args[1], args[2]), start))
                    ELSE out(RErr(start, "Rank"))
               [] k.v = "Comma" ->
                    IF n = 0 THEN out(ROk(k))
                    ELSE out(ROk(FromVec(args)))
               [] k.v = "Colon" ->
                    IF n = 0 THEN out(ROk(k))
                    ELSE IF n = 2
                    THEN IF args[1].t = "Name"
                         THEN [w |-> define_variable(w, args[1].v, args[2]),
                               r |-> ROk(args[2])]
                         ELSE out(RErr(start, "NameExpectedOnLhs"))
                    ELSE out(RErr(start, "Rank"))
               [] k.v = "Bang" ->
                    IF n = 0 THEN out(ROk(k))
                    ELSE IF n = 1
                    THEN IF args[1].t = "Int"
                         THEN out(ROk(KIntList(Range0(args[1].v))))
                         ELSE out(RErr(start, "Type"))
                    ELSE out(RErr(start, "Nyi"))
               [] k.v = "At" ->
                    IF n = 0 THEN out(ROk(k))
                    ELSE IF n = 1
                    THEN LET i == intern(w.I, TypeTag(args[1]))
                         IN  [w |-> [w EXCEPT !.I = i.I], r |-> ROk(KSym(i.sym))]
                    ELSE out(RErr(start, "Nyi"))
               [] OTHER -> out(RErr(start, "Nyi"))

\* the first special case of ASTNode::interpret: $[a;b;c...]
IsConditional(node) ==
    /\ node.kind = "Apply"
    /\ node.value.kind = "Expr"
    /\ node.value.k = KVerb("Dollar")
    /\ Len(node.args) = 1
    /\ node.args[1].kind = "ExprList"
    /\ Len(node.args[1].elist) > 2

\* an evaluator without the assignment special case
IsAssignment_never(node) == FALSE

\* the second special case of ASTNode::interpret: name:rhs
IsAssignment(node) ==
    /\ node.kind = "Apply"
    /\ node.value.kind = "Expr"
    /\ node.value.k = KVerb("Colon")
    /\ Len(node.args) = 2
    /\ node.args[1].kind = "Expr"
    /\ node.args[1].k.t = "Name"

RECURSIVE interpret(_, _), interpret_node(_, _), apply(_, _, _),
          interpret_args(_, _, _, _), interpret_elist(_, _, _)

\* apply that locates its errors at the end of the callee
apply_end(value, args, w) ==
    LET start == value.e
        c == interpret(value, w)
    IN  IF ~c.r.ok THEN c
        ELSE apply_verb(c.r.v, start, args, Logged(c.w, ApplyEv(value, args)))

\* ASTNode::apply
apply(value, args, w) ==
    LET start == value.s
        c == interpret(value, w)
    IN  IF ~c.r.ok THEN c
        ELSE apply_verb(c.r.v, start, args, Logged(c.w, ApplyEv(value, args)))

\* an argument loop that runs over the slots from the first to the last
RECURSIVE args_forward(_, _, _, _)
args_forward(args, i, kargs, w) ==
    IF i > Len(args) THEN [w |-> w, r |-> ROk(KNil), kargs |-> kargs]
    ELSE IF args[i] = None
         THEN args_forward(args, i + 1, Append(kargs, KNil), w)
         ELSE LET a == interpret(args[i], w)
              IN  IF ~a.r.ok THEN [w |-> a.w, r |-> a.r, kargs |-> kargs]
                  ELSE args_forward(args, i + 1, Append(kargs, a.r.v), a.w)

interpret_args_forward(args, i, kargs, w) == args_forward(args, 1, <<>>, w)

\* an argument loop that passes an identifier on without resolving it
interpret_args_names_unresolved(args, i, kargs, w) ==
    IF i = 0 THEN [w |-> w, r |-> ROk(KNil), kargs |-> kargs]
    ELSE IF args[i] = None
         THEN interpret_args(args, i - 1, <<KNil>> \o kargs, w)
         ELSE IF args[i].kind = "Expr" /\ args[i].k.t = "Name"
         THEN interpret_args(args, i - 1, <<args[i].k>> \o kargs, w)
         ELSE LET a == interpret(args[i], w)
              IN  IF ~a.r.ok THEN [w |-> a.w, r |-> a.r, kargs |-> kargs]
                  ELSE interpret_args(args, i - 1, <<a.r.v>> \o kargs, a.w)

\* the argument loop of ASTNode::interpret:
\*   for item in args.into_iter().rev() { kargs.push_front(...) }
\* with the slots i, i-1, .. 1 still to evaluate and kargs the values so far
interpret_args(args, i, kargs, w) ==
    IF i = 0 THEN [w |-> w, r |-> ROk(KNil), kargs |-> kargs]
    ELSE IF args[i] = None
         THEN interpret_args(args, i - 1, <<KNil>> \o kargs, w)
         ELSE LET a == interpret(args[i], w)
              IN  IF ~a.r.ok THEN [w |-> a.w, r |-> a.r, kargs |-> kargs]
                  ELSE interpret_args(args, i - 1, <<a.r.v>> \o kargs, a.w)

\* a loop over the slots before the last that goes on after an error
interpret_elist_goes_on(elist, i, w) ==
    IF i > Len(elist) THEN [w |-> w, r |-> ROk(KNil)]
    ELSE IF elist[i] = None THEN interpret_elist(elist, i + 1, w)
         ELSE interpret_elist(elist, i + 1, interpret(elist[i], w).w)

\* the loop of the ExprList arm over the slots before the last:
\*   for ast in elist.into_iter().flatten() { ast.interpret()?; }
\* with the slots i .. Len(elist) still to evaluate
interpret_elist(elist, i, w) ==
    IF i > Len(elist) THEN [w |-> w, r |-> ROk(KNil)]
    ELSE IF elist[i] = None THEN interpret_elist(elist, i + 1, w)
         ELSE LET a == interpret(elist[i], w)
              IN  IF ~a.r.ok THEN a
                  ELSE interpret_elist(elist, i + 1, a.w)

\* an evaluator that evaluates the callee of an ordinary Apply before its
\* arguments
interpret_node_callee_first(node, w) ==
    CASE node.kind = "Expr" ->
            IF node.k.t = "Name"
            THEN LET g == get_variable(w, node.k.v)
                 IN  IF g.some THEN [w |-> w, r |-> ROk(g.v)]
                     ELSE [w |-> w, r |-> RErr(node.s, "UndefinedVariable")]
            ELSE [w |-> w, r |-> ROk(node.k)]
      [] node.kind = "Apply" ->
            IF IsConditional(node) THEN [w |-> w, r |-> Panic]
            ELSE IF IsAssignment(node)
            THEN LET rhs == node.args[Len(node.args)]
                 IN  IF rhs = None
                     THEN [w |-> w, r |-> RErr(node.s, "ExpressionExpected")]
                     ELSE LET v == interpret(rhs, w)
                          IN  IF ~v.r.ok THEN v
                              ELSE apply(node.value, <<node.args[1].k, v.r.v>>, v.w)
            ELSE LET c == interpret(node.value, w)
                     a == interpret_args(node.args, Len(node.args), <<>>, c.w)
                 IN  IF ~c.r.ok THEN c
                     ELSE IF ~a.r.ok THEN [w |-> a.w, r |-> a.r]
                     ELSE apply_verb(c.r.v, node.value.s, a.kargs,
                                     Logged(a.w, ApplyEv(node.value, a.kargs)))
      [] node.kind = "ExprList" ->
            LET n == Len(node.elist)
                init == interpret_elist(SubSeq(node.elist, 1, n - 1), 1, w)
            IN  IF ~init.r.ok THEN init
                ELSE IF n > 0 /\ node.elist[n] # None
                     THEN interpret(node.elist[n], init.w)
                     ELSE [w |-> init.w, r |-> ROk(KNil)]

\* the match of ASTNode::interpret
interpret_node(node, w) ==
    CASE node.kind = "Expr" ->
            IF node.k.t = "Name"
            THEN LET g == get_variable(w, node.k.v)
                 IN  IF g.some THEN [w |-> w, r |-> ROk(g.v)]
                     ELSE [w |-> w, r |-> RErr(node.s, "UndefinedVariable")]
            ELSE [w |-> w, r |-> ROk(node.k)]
      [] node.kind = "Apply" ->
            IF IsConditional(node) THEN [w |-> w, r |-> Panic]
            ELSE IF IsAssignment(node)
            THEN LET rhs == node.args[Len(node.args)]
                 IN  IF rhs = None
                     THEN [w |-> w, r |-> RErr(node.s, "ExpressionExpected")]
                     ELSE LET v == interpret(rhs, w)
                          IN  IF ~v.r.ok THEN v
                              ELSE apply(node.value, <<node.args[1].k, v.r.v>>, v.w)
            ELSE LET a == interpret_args(node.args, Len(node.args), <<>>, w)
                 IN  IF ~a.r.ok THEN [w |-> a.w, r |-> a.r]
                     ELSE apply(node.value, a.kargs, a.w)
      [] node.kind = "ExprList" ->
            LET n == Len(node.elist)
                init == interpret_elist(SubSeq(node.elist, 1, n - 1), 1, w)
            IN  IF ~init.r.ok THEN init
                ELSE IF n > 0 /\ node.elist[n] # None
                     THEN interpret(node.elist[n], init.w)
                     ELSE [w |-> init.w, r |-> ROk(KNil)]

\* ASTNode::interpret, with the call and its return recorded in the history
interpret(node, w) ==
    LET out == interpret_node(node, Logged(w, EnterEv(node)))
    IN  [w |-> Logged(out.w, ExitEv(node, out.r)), r |-> out.r]

(***************************************************************************)
(* The inputs of the evaluator: the ASTs Parser::parse builds, with the    *)
(* spans it gives them.  A shape is a source text in tree form; Build lays *)
(* it out from byte offset s (one byte per token, three for a quoted char, *)
(* a space between a callee and its juxtaposed argument) and returns the   *)
(* node the parser makes of it and the offset after its last byte.         *)
(***************************************************************************)
NoneSh == [sh |-> "none"]
Lf(k) == [sh |-> "leaf", k |-> k]
Infix(v, a, b) == [sh |-> "infix", v |-> v, a |-> a, b |-> b]
Juxt(a, b) == [sh |-> "juxt", a |-> a, b |-> b]
Group(a) == [sh |-> "group", a |-> a]
Paren(slots) == [sh |-> "paren", slots |-> slots]
Bracket(slots) == [sh |-> "bracket", slots |-> slots]
Prog(slots) == [sh |-> "prog", slots |-> slots]

\* the bytes of a token: "a" is 3, 0.5 and 1.5 are 3, `x is 2, a run of
\* one-digit numbers separated by single spaces is 2n-1, the others are 1
TokLen(k) ==
    CASE k.t \in {"Char", "Float"} -> 3
      [] k.t = "Sym" -> 2
      [] k.t = "IntList" -> 2 * Len(k.v) - 1
      [] OTHER -> 1

RECURSIVE Build(_, _), BuildSlots(_, _, _)

\* Parser::expr_list: the slots from the i-th on, separated by semicolons
BuildSlots(slots, i, s) ==
    IF i > Len(slots) THEN [nodes |-> <<>>, end |-> s]
    ELSE LET a == Build(slots[i], s)
             rest == IF i < Len(slots) THEN BuildSlots(slots, i + 1, a.end + 1)
                     ELSE [nodes |-> <<>>, end |-> a.end]
         IN  [nodes |-> <<a.node>> \o rest.nodes, end |-> rest.end]

Build(sh, s) ==
    CASE sh.sh = "none" -> [node |-> None, end |-> s]
      \* Parser::subexpr, a literal, identifier or verb token
      [] sh.sh = "leaf" ->
            [node |-> Expr(s, s + TokLen(sh.k), sh.k), end |-> s + TokLen(sh.k)]
      \* Parser::expr, e1 verb e2 and e1 verb
      [] sh.sh = "infix" ->
            LET a == Build(sh.a, s)
                verb == Expr(a.end, a.end + 1, KVerb(sh.v))
                b == Build(sh.b, a.end + 1)
            IN  [node |-> IF b.node # None
                          THEN Apply(a.node.s, b.node.e, verb, <<a.node, b.node>>)
                          ELSE Apply(a.node.s, verb.e, verb, <<a.node, None>>),
                 end |-> b.end]
      \* Parser::expr, e1 e2
      [] sh.sh = "juxt" ->
            LET a == Build(sh.a, s)
                b == Build(sh.b, a.end + 1)
            IN  [node |-> Apply(a.node.s, b.node.e, a.node, <<b.node>>),
                 end |-> b.end]
      \* Parser::paren, a single expression within parens
      [] sh.sh = "group" ->
            LET a == Build(sh.a, s + 1)
            IN  [node |-> a.node, end |-> a.end + 1]
      \* Parser::paren, a list of objects
      [] sh.sh = "paren" ->
            LET l == BuildSlots(sh.slots, 1, s + 1)
            IN  [node |-> Apply(s, l.end + 1, Expr(s, s, KVerb("Comma")), l.nodes),
                 end |-> l.end + 1]
      \* Parser::bracket
      [] sh.sh = "bracket" ->
            LET l == BuildSlots(sh.slots, 1, s + 1)
            IN  [node |-> ExprList(s, l.end + 1, l.nodes), end |-> l.end + 1]
      \* Parser::program over Parser::expr_list(0), more than one expression
      [] sh.sh = "prog" ->
            LET l == BuildSlots(sh.slots, 1, s)
                n == Len(l.nodes)
            IN  [node |-> ExprList(IF l.nodes[1] # None THEN l.nodes[1].s ELSE s,
                                   IF l.nodes[n] # None THEN l.nodes[n].e ELSE l.end,
                                   l.nodes),
                 end |-> l.end]

\* the identifiers x and y, interned by the tokenizer before evaluation
SymX == 0
SymY == 1
X == Lf(KName(SymX))
Y == Lf(KName(SymY))
One == Lf(KInt(1))
Two == Lf(KInt(2))

\* x:1  x:2  y:-  x:
AssignShapes ==
    {Infix("Colon", X, One), Infix("Colon", X, Two),
     Infix("Colon", Y, Lf(KVerb("Minus"))), Infix("Colon", X, NoneSh)}

\* 1+"a", a Type error
TypeErrorShape == Infix("Plus", One, Lf(KChar(97)))

\* the expressions that occur as arguments
ArgShapes == {One, X, Y, TypeErrorShape} \cup AssignShapes

\* the slots of the enumerated lists
ListSlots == {NoneSh, Infix("Colon", X, One), Infix("Colon", X, Two), TypeErrorShape}

SlotLists == {l \in SeqsUpTo(ListSlots, MaxSlots) : Len(l) >= 1}

\* the left operands of an infix verb: a token or a parenthesised expression
SubexprShapes ==
    {X} \cup {Group(a) : a \in {Infix("Colon", X, One), Infix("Colon", X, Two),
                                     TypeErrorShape}}

\* the right operands of an infix verb
RightShapes ==
    {NoneSh, Y, Infix("Colon", X, One), Infix("Colon", X, Two), TypeErrorShape}

CalleeShapes == {Y, Lf(KVerb("Minus")), Lf(KVerb("Plus"))}

Shapes ==
    ArgShapes
        \cup {Prog(l) : l \in {m \in SlotLists : Len(m) >= 2}}
        \cup {Bracket(l) : l \in SlotLists}
        \cup {Paren(l) : l \in {m \in SlotLists : Len(m) >= 2}}
        \cup {Infix("Plus", a, b) : a \in SubexprShapes, b \in RightShapes}
        \cup {Juxt(c, b) : c \in CalleeShapes, b \in ArgShapes}
        \cup {Juxt(Lf(KVerb("Bang")), b) : b \in {Two, Lf(KChar(97))}}
        \cup {Juxt(Lf(KVerb("Dollar")), Bracket(<<X, One, Two>>)),
              Juxt(Lf(KVerb("Plus")), Bracket(<<One, Two>>)),
              Infix("Colon", X, Infix("Colon", Y, Lf(KVerb("Minus"))))}

\* the ASTs evaluated: what the parser makes of the shapes (expr_list always
\* pushes a slot, so [] is the list of one absent slot)
ASTs == {Build(sh, 0).node : sh \in Shapes}

(***************************************************************************)
(* Spec: any sequence of top-level evaluations, as run() makes them.       *)
(***************************************************************************)
NotEvaluated == [ok |-> TRUE, v |-> KNil, e |-> "not evaluated", loc |-> 0]

\* the define_variable calls of a history, applied in order to a binding map
RECURSIVE Replay(_, _, _)
Replay(m, log, i) ==
    IF i > Len(log) THEN m
    ELSE Replay(IF log[i].op = "define"
                THEN [n \in DOMAIN m \cup {log[i].name} |->
                         IF n = log[i].name THEN log[i].value ELSE m[n]]
                ELSE m, log, i + 1)

Init ==
    /\ INTERNER = intern(intern(Interner_new, <<120>>).I, <<121>>).I
    /\ issued = {<<(<<120>>), SymX>>, <<(<<121>>), SymY>>}
    /\ lastName = <<121>>
    /\ lastSym = SymY
    /\ GLOBAL_ENV = Environment_new
    /\ prevEnv = Environment_new
    /\ evalAst = None
    /\ evalRes = NotEvaluated
    /\ evalLog = <<>>
    /\ assigned = <<>>
    /\ ArithIdle
    /\ TokIdle
    /\ StreamIdle
    /\ ParseIdle
    /\ ThreadsIdle

\* run(): ast.interpret() on a parsed input; a panic ends the process
Eval(ast) ==
    LET out == interpret(ast, [env |-> GLOBAL_ENV, I |-> INTERNER, log |-> <<>>])
    IN  /\ evalRes.e # "panic"
        /\ GLOBAL_ENV' = out.w.env
        /\ INTERNER' = out.w.I
        /\ prevEnv' = GLOBAL_ENV
        /\ evalAst' = ast
        /\ evalRes' = out.r
        /\ evalLog' = out.w.log
        /\ assigned' = Replay(assigned, out.w.log, 1)
        /\ UNCHANGED <<issued, lastName, lastSym, arithVars, tokVars,
                       streamVars, parseRes, threadVars>>

Next == \E ast \in ASTs : Eval(ast)

Spec == Init /\ [][Next]_vars

(***************************************************************************)
(* Reading the history of the last top-level evaluation.                   *)
(***************************************************************************)
RECURSIVE NodesOf(_)
SlotNodes(slots) == UNION {NodesOf(slots[i]) : i \in 1..Len(slots)}

\* the nodes of a tree
NodesOf(node) ==
    CASE node.kind = "None" -> {}
      [] node.kind = "Expr" -> {node}
      [] node.kind = "Apply" -> {node} \cup NodesOf(node.value) \cup SlotNodes(node.args)
      [] node.kind = "ExprList" -> {node} \cup SlotNodes(node.elist)

EventPos(op, node) ==
    LET hits == {k \in 1..Len(evalLog) :
                    /\ node.kind # "None"
                    /\ evalLog[k].op = op
                    /\ evalLog[k].id = NodeId(node)}
    IN  IF node.kind = "None" \/ hits = {} THEN 0 ELSE CHOOSE k \in hits : TRUE

\* where interpret was called on the node, where it returned, what it
\* returned (0 and NotEvaluated when it was not called)
EnterPos(node) == EventPos("enter", node)
ExitPos(node) == EventPos("exit", node)
ExitRes(node) == IF ExitPos(node) = 0 THEN NotEvaluated ELSE evalLog[ExitPos(node)].r
Evaluated(node) == EnterPos(node) > 0
EvaluatedOk(node) == Evaluated(node) /\ ExitRes(node).ok

\* the position of the apply call on a callee and the arguments it received
ApplyPos(value) == EventPos("apply", value)

Present(slots) == {i \in 1..Len(slots) : slots[i] # None}

\* the define_variable calls recorded from position lo to position hi
DefinesIn(lo, hi) == {k \in lo..hi : evalLog[k].op = "define"}

IsOrdinaryApply(node) ==
    node.kind = "Apply" /\ ~IsConditional(node) /\ ~IsAssignment(node)

EvaluatedNodes == {n \in NodesOf(evalAst) : Evaluated(n)}

\* a bare identifier at offset 0
Bare(name) == Expr(0, 1, KName(name))

\* evaluating a node in the current state of the program
EvalNow(node) ==
    interpret(node, [env |-> GLOBAL_ENV, I |-> INTERNER, log |-> <<>>]).r

Names == {SymX, SymY}

(***************************************************************************)
(* Claims about the environment and the evaluator, checked under Spec.     *)
(***************************************************************************)

\* C2: a bare identifier evaluates to the value of the latest assignment to
\* it and fails with UndefinedVariable exactly when it was never assigned;
\* an evaluation changes only the bindings of the names it assigns and
\* removes none.
C2_LastWriteWins ==
    /\ \A n \in Names :
          /\ n \in DOMAIN assigned => EvalNow(Bare(n)) = ROk(assigned[n])
          /\ n \notin DOMAIN assigned => EvalNow(Bare(n)) = RErr(0, "UndefinedVariable")
    /\ \A n \in Names :
          (evalAst = Bare(n)) =>
              /\ evalRes = (IF n \in DOMAIN assigned THEN ROk(assigned[n])
                            ELSE RErr(0, "UndefinedVariable"))
              /\ GLOBAL_ENV = prevEnv
    /\ DOMAIN prevEnv \subseteq DOMAIN GLOBAL_ENV
    /\ \A n \in Names :
          (\A k \in DefinesIn(1, Len(evalLog)) : evalLog[k].name # n) =>
              /\ n \in DOMAIN GLOBAL_ENV <=> n \in DOMAIN prevEnv
              /\ n \in DOMAIN prevEnv => GLOBAL_ENV[n] = prevEnv[n]

\* x:2 evaluated while x was bound to 1 and y to the verb -
C2_Witness ==
    /\ evalAst = Build(Infix("Colon", X, Two), 0).node
    /\ SymX \in DOMAIN prevEnv
    /\ prevEnv[SymX] = KInt(1)
    /\ GLOBAL_ENV[SymX] = KInt(2)
    /\ SymY \in DOMAIN prevEnv
    /\ GLOBAL_ENV[SymY] = prevEnv[SymY]
    /\ EvalNow(Bare(SymX)) = ROk(KInt(2))

\* an assignment as written: the verb : applied to an identifier and one
\* more slot
AssignsName(node) ==
    /\ node.kind = "Apply"
    /\ node.value = Expr(node.value.s, node.value.e, KVerb("Colon"))
    /\ Len(node.args) = 2
    /\ node.args[1].kind = "Expr"
    /\ node.args[1].k.t = "Name"

\* C3: name:rhs never evaluates the name; it evaluates rhs, binds the name
\* to that value and returns it, so the bare name then evaluates to it.
C3_Assignment ==
    /\ \A a \in EvaluatedNodes :
          (AssignsName(a) /\ a.args[2] # None) =>
              /\ ~Evaluated(a.args[1])
              /\ Evaluated(a.args[2])
              /\ ExitRes(a.args[2]).ok =>
                    /\ ExitRes(a) = ROk(ExitRes(a.args[2]).v)
                    /\ \E k \in DefinesIn(ExitPos(a.args[2]), ExitPos(a)) :
                          evalLog[k] = DefineEv(a.args[1].k.v, ExitRes(a.args[2]).v)
    /\ (AssignsName(evalAst) /\ EvaluatedOk(evalAst.args[2])) =>
          LET x == evalAst.args[1].k.v
              v == ExitRes(evalAst.args[2]).v
          IN  /\ evalRes = ROk(v)
              /\ x \in DOMAIN GLOBAL_ENV
              /\ GLOBAL_ENV[x] = v
              /\ EvalNow(Bare(x)) = ROk(v)

\* x:1 evaluated while x was unbound
C3_Witness ==
    /\ evalAst = Build(Infix("Colon", X, One), 0).node
    /\ SymX \notin DOMAIN prevEnv
    /\ evalRes = ROk(KInt(1))
    /\ GLOBAL_ENV[SymX] = KInt(1)

\* the arguments an ordinary Apply passes on: Nil for an absent slot, the
\* value of the slot otherwise, in source order
ArgsPassed(a) ==
    [i \in 1..Len(a.args) |->
        IF a.args[i] = None THEN KNil ELSE ExitRes(a.args[i]).v]

\* C4 as claimed: the argument slots of an ordinary Apply are evaluated from
\* left to right, so an argument is evaluated only after every present
\* argument to its left has been evaluated successfully.
C4_LeftToRight ==
    \A a \in EvaluatedNodes :
        IsOrdinaryApply(a) =>
            \A i, j \in Present(a.args) :
                (i < j /\ Evaluated(a.args[j])) =>
                    /\ EvaluatedOk(a.args[i])
                    /\ ExitPos(a.args[i]) < EnterPos(a.args[j])

\* C4 amended: the argument slots of an ordinary Apply are evaluated from
\* right to left, with absent slots becoming Nil: an argument is evaluated
\* only after every present argument to its right has been evaluated
\* successfully, the first argument is evaluated unless one to its right
\* failed, and the error of a failing argument is the result.
C4_RightToLeft ==
    \A a \in EvaluatedNodes :
        IsOrdinaryApply(a) =>
            /\ \A i, j \in Present(a.args) :
                  (i < j /\ Evaluated(a.args[i])) =>
                      /\ EvaluatedOk(a.args[j])
                      /\ ExitPos(a.args[j]) < EnterPos(a.args[i])
            /\ \A i \in Present(a.args) :
                  (\A j \in Present(a.args) : j > i => EvaluatedOk(a.args[j]))
                      => Evaluated(a.args[i])
            /\ \A i \in Present(a.args) :
                  (Evaluated(a.args[i]) /\ ~ExitRes(a.args[i]).ok) =>
                      /\ ExitRes(a) = ExitRes(a.args[i])
                      /\ ApplyPos(a.value) = 0
            /\ ApplyPos(a.value) > 0 =>
                  evalLog[ApplyPos(a.value)].args = ArgsPassed(a)

\* (x:1;x:2) returns 1 2 and leaves x bound to 1
C4_Witness ==
    /\ evalAst = Build(Paren(<<Infix("Colon", X, One), Infix("Colon", X, Two)>>), 0).node
    /\ evalRes = ROk(KIntList(<<1, 2>>))
    /\ GLOBAL_ENV[SymX] = KInt(1)

\* C5 as claimed: the callee of an ordinary Apply is evaluated before any
\* argument, so an unbound callee fails with UndefinedVariable and leaves the
\* environment as it was.
C5_CalleeFirst ==
    /\ \A a \in EvaluatedNodes :
          IsOrdinaryApply(a) =>
              \A i \in Present(a.args) :
                  Evaluated(a.args[i]) =>
                      /\ Evaluated(a.value)
                      /\ ExitPos(a.value) < EnterPos(a.args[i])
    /\ (/\ IsOrdinaryApply(evalAst)
        /\ evalAst.value.kind = "Expr"
        /\ evalAst.value.k.t = "Name"
        /\ evalAst.value.k.v \notin DOMAIN prevEnv) =>
          /\ evalRes = RErr(evalAst.value.s, "UndefinedVariable")
          /\ GLOBAL_ENV = prevEnv

\* C5 amended: the callee of an ordinary Apply is evaluated after all its
\* arguments, and only when every present argument evaluated successfully;
\* a callee that is an identifier still unbound then fails with
\* UndefinedVariable at the callee, and the assignments the arguments made
\* have taken effect.
C5_CalleeLast ==
    /\ \A a \in EvaluatedNodes :
          IsOrdinaryApply(a) =>
              /\ Evaluated(a.value) =>
                    \A i \in Present(a.args) :
                        /\ EvaluatedOk(a.args[i])
                        /\ ExitPos(a.args[i]) < EnterPos(a.value)
              /\ (\A i \in Present(a.args) : EvaluatedOk(a.args[i]))
                    => Evaluated(a.value)
    /\ (/\ IsOrdinaryApply(evalAst)
        /\ evalAst.value.kind = "Expr"
        /\ evalAst.value.k.t = "Name"
        /\ evalAst.value.k.v \notin DOMAIN GLOBAL_ENV) =>
          /\ GLOBAL_ENV = Replay(prevEnv, evalLog, 1)
          /\ (\A i \in Present(evalAst.args) : EvaluatedOk(evalAst.args[i]))
                => evalRes = RErr(evalAst.value.s, "UndefinedVariable")
          /\ ~evalRes.ok

\* y x:1 with y unbound: UndefinedVariable at y, and x is bound to 1
C5_Witness ==
    /\ evalAst = Build(Juxt(Y, Infix("Colon", X, One)), 0).node
    /\ SymX \notin DOMAIN prevEnv
    /\ evalRes = RErr(0, "UndefinedVariable")
    /\ GLOBAL_ENV[SymX] = KInt(1)

\* C6: an ExprList evaluates its present elements from left to right, an
\* element only after those before it succeeded; its value is that of the
\* last slot, Nil when the list is empty or the last slot absent, or the
\* error of the element that failed; the bindings made are kept.
C6_ExprList ==
    /\ \A l \in EvaluatedNodes :
          l.kind = "ExprList" =>
              LET n == Len(l.elist)
                  P == Present(l.elist)
              IN  /\ \A i, j \in P :
                        (i < j /\ Evaluated(l.elist[j])) =>
                            /\ EvaluatedOk(l.elist[i])
                            /\ ExitPos(l.elist[i]) < EnterPos(l.elist[j])
                  /\ \A j \in P :
                        (\A i \in P : i < j => EvaluatedOk(l.elist[i]))
                            => Evaluated(l.elist[j])
                  /\ \A i \in P :
                        (Evaluated(l.elist[i]) /\ ~ExitRes(l.elist[i]).ok)
                            => ExitRes(l) = ExitRes(l.elist[i])
                  /\ (\A i \in P : EvaluatedOk(l.elist[i])) =>
                        ExitRes(l) = (IF n > 0 /\ n \in P
                                      THEN ROk(ExitRes(l.elist[n]).v)
                                      ELSE ROk(KNil))
    /\ evalAst.kind = "ExprList" => GLOBAL_ENV = Replay(prevEnv, evalLog, 1)

\* [x:1;x:2] returns 2 and leaves x bound to 2
C6_Witness ==
    /\ evalAst = Build(Bracket(<<Infix("Colon", X, One), Infix("Colon", X, Two)>>), 0).node
    /\ evalRes = ROk(KInt(2))
    /\ GLOBAL_ENV[SymX] = KInt(2)
    /\ SymX \notin DOMAIN prevEnv

\* the verb of a callee that is a verb literal, "" otherwise
CalleeVerb(a) ==
    IF a.value.kind = "Expr" /\ a.value.k.t = "Verb" THEN a.value.k.v ELSE ""

\* C13: + * or % applied to exactly one argument returns a Nyi error located
\* at the verb, as a value of the evaluation: the process is not aborted.
C13_NyiError ==
    \A a \in EvaluatedNodes :
        (/\ IsOrdinaryApply(a)
         /\ CalleeVerb(a) \in {"Plus", "Star", "Percent"}
         /\ Len(a.args) = 1
         /\ a.args[1] # None
         /\ EvaluatedOk(a.args[1]))
            => /\ evalRes.e # "panic"
               /\ ExitRes(a) = RErr(a.value.s, "Nyi")

(***************************************************************************)
(* SpecVerbs: top-level evaluations of list literals, of the verbs , and @ *)
(* and of applications that fail, on the ASTs the parser builds of them.   *)
(***************************************************************************)
Half == Lf(KFloat(<<1, 2>>))
CharA == Lf(KChar(97))
SymLit == Lf(KSym(SymX))
IntRun(l) == Lf(KIntList(l))
At == Lf(KVerb("At"))

\* the slots of the parenthesised lists: 1  0.5  "a"  and the absent slot
ElemShapes == {One, Half, CharA, NoneSh}

ElemLists == {l \in SeqsUpTo(ElemShapes, MaxSlots) : Len(l) >= 2}

\* (1;0.5)
MixedList == Paren(<<One, Half>>)

\* 1 2+1 2 3
LengthErrorShape == Infix("Plus", IntRun(<<1, 2>>), IntRun(<<1, 2, 3>>))

VerbShapes ==
    {Paren(l) : l \in ElemLists}
        \cup {Paren(<<Paren(<<One, CharA>>), One>>), Paren(<<One, Paren(<<One, Two>>)>>)}
        \cup {Infix("Comma", a, b) : a, b \in {One, Half, CharA, SymLit}}
        \cup {Infix(v, MixedList, b) : v \in {"Plus", "Star"}, b \in {One, Half}}
        \cup {Juxt(Lf(KVerb("Minus")), MixedList)}
        \cup {LengthErrorShape, TypeErrorShape, Juxt(Lf(KVerb("Bang")), CharA),
              Infix("Colon", One, Two), Bracket(<<One, TypeErrorShape>>)}
        \cup {Juxt(At, X), Juxt(At, Y), Juxt(At, One),
              Infix("Colon", X, One), Infix("Colon", X, Lf(KVerb("Minus")))}

VerbASTs == {Build(sh, 0).node : sh \in VerbShapes}

NextVerbs == \E ast \in VerbASTs : Eval(ast)

SpecVerbs == Init /\ [][NextVerbs]_vars

(***************************************************************************)
(* Claims checked under SpecVerbs.                                         *)
(***************************************************************************)
\* a non-empty sequence of scalars of one of the four kinds
Homogeneous(v) ==
    /\ Len(v) > 0
    /\ \E t \in ScalarTags : \A i \in 1..Len(v) : v[i].t = t

\* no general list in the value, at any depth, is made of such a sequence
RECURSIVE Normalised(_)
Normalised(k) ==
    k.t = "GenList" =>
        /\ ~Homogeneous(k.v)
        /\ \A i \in 1..Len(k.v) : Normalised(k.v[i])

\* C12: no value an evaluation produces holds a non-empty general list made
\* only of Char, only of Int, only of Float or only of Sym scalars, and the
\* verb , applied to such a sequence returns the CharList, IntList,
\* FloatList or SymList of the same elements in the same order.
C12_Normalised ==
    /\ \A k \in 1..Len(evalLog) :
          (evalLog[k].op = "exit" /\ evalLog[k].r.ok) => Normalised(evalLog[k].r.v)
    /\ \A n \in DOMAIN GLOBAL_ENV : Normalised(GLOBAL_ENV[n])
    /\ \A a \in EvaluatedNodes :
          (/\ IsOrdinaryApply(a)
           /\ CalleeVerb(a) = "Comma"
           /\ ApplyPos(a.value) > 0
           /\ Homogeneous(evalLog[ApplyPos(a.value)].args)) =>
              LET args == evalLog[ApplyPos(a.value)].args
              IN  ExitRes(a) = ROk(K0(ListTagOf(args[1].t),
                                      [i \in 1..Len(args) |-> args[i].v]))

\* (1;0.5)*0.5 is the FloatList 0.5 0.25
C12_Witness ==
    /\ evalAst = Build(Infix("Star", MixedList, Half), 0).node
    /\ ExitRes(evalAst.args[1]) = ROk(KGenList(<<KInt(1), KFloat(<<1, 2>>)>>))
    /\ evalRes = ROk(KFloatList(<< <<1, 2>>, <<1, 4>> >>))

\* C14: an error raised while a callee is applied is located at the start of
\* the callee; 1 2+1 2 3 is a Length error at offset 3, the offset of +.
C14_ErrorLocation ==
    /\ \A a \in EvaluatedNodes :
          (/\ a.kind = "Apply"
           /\ ApplyPos(a.value) > 0
           /\ ~ExitRes(a).ok) => ExitRes(a).loc = a.value.s
    /\ evalAst = Build(LengthErrorShape, 0).node => evalRes = RErr(3, "Length")

\* [1;1+"a"] is a Type error at offset 4, the offset of its +
C14_Witness ==
    /\ evalAst = Build(Bracket(<<One, TypeErrorShape>>), 0).node
    /\ evalRes = RErr(4, "Type")

\* @ applied to one argument that is an identifier
IsAtName(a) ==
    /\ IsOrdinaryApply(a)
    /\ CalleeVerb(a) = "At"
    /\ Len(a.args) = 1
    /\ a.args[1].kind = "Expr"
    /\ a.args[1].k.t = "Name"

\* C15 as claimed: @ applied to an identifier returns the symbol n without
\* evaluating the identifier, bound or not.
C15_NameTag ==
    IsAtName(evalAst) =>
        /\ ~Evaluated(evalAst.args[1])
        /\ evalRes.ok
        /\ evalRes.v.t = "Sym"
        /\ lookup(INTERNER, evalRes.v.v) = <<110>>

\* C15 amended: @ applied to an identifier evaluates the identifier first:
\* it returns the type tag of the value the identifier is bound to, and
\* fails with UndefinedVariable at the identifier when it is unbound.
C15_ResolvedTag ==
    IsAtName(evalAst) =>
        LET x == evalAst.args[1]
        IN  /\ Evaluated(x)
            /\ x.k.v \in DOMAIN prevEnv =>
                  /\ evalRes.ok
                  /\ evalRes.v.t = "Sym"
                  /\ lookup(INTERNER, evalRes.v.v) = TypeTag(prevEnv[x.k.v])
            /\ x.k.v \notin DOMAIN prevEnv =>
                  evalRes = RErr(x.s, "UndefinedVariable")

\* @ x with x bound to 1 is the symbol i
C15_Witness ==
    /\ evalAst = Build(Juxt(At, X), 0).node
    /\ SymX \in DOMAIN prevEnv
    /\ prevEnv[SymX] = KInt(1)
    /\ evalRes.ok
    /\ lookup(INTERNER, evalRes.v.v) = <<105>>

(***************************************************************************)
(* Bytes.  A byte is its ASCII code; B("-") is the code of the character   *)
(* written between the quotes; the double quote, the backslash and the     *)
(* backtick have their names in its place.                                 *)
(***************************************************************************)
Printable ==
    <<" ", "!", "DQUOTE", "#", "$", "%", "&", "'", "(", ")", "*", "+", ",", "-",
      ".", "/", "0", "1", "2", "3", "4", "5", "6", "7", "8", "9", ":", ";",
      "<", "=", ">", "?", "@", "A", "B", "C", "D", "E", "F", "G", "H", "I",
      "J", "K", "L", "M", "N", "O", "P", "Q", "R", "S", "T", "U", "V", "W",
      "X", "Y", "Z", "[", "BACKSLASH", "]", "^", "_", "BACKTICK", "a", "b", "c", "d", "e",
      "f", "g", "h", "i", "j", "k", "l", "m", "n", "o", "p", "q", "r", "s",
      "t", "u", "v", "w", "x", "y", "z", "{", "|", "}", "~">>

Ord ==
    [c \in {Printable[i] : i \in 1..Len(Printable)} |->
        31 + (CHOOSE i \in 1..Len(Printable) : Printable[i] = c)]

B(c) == Ord[c]

TAB == 9
DQUOTE == B("DQUOTE")
BACKSLASH == B("BACKSLASH")
BACKTICK == B("BACKTICK")
LF == 10
FF == 12
CR == 13

AnyByte == 0..255
Digits == B("0")..B("9")                         \* u8::is_ascii_digit
Letters == (B("a")..B("z")) \cup (B("A")..B("Z"))
Alphanumeric == Digits \cup Letters              \* u8::is_ascii_alphanumeric
AsciiWhitespace == {TAB, LF, FF, CR, B(" ")}     \* u8::is_ascii_whitespace

(***************************************************************************)
(* The byte cursor (tok/stream.rs).  Option<usize> and Option<u8> are the  *)
(* value, or NoIndex / NoByte for None.                                    *)
(***************************************************************************)
NoIndex == -1
NoByte == -1

\* ByteStream::new
ByteStream_new(slice) == [slice |-> slice, index |-> NoIndex]

\* <[u8]>::get
slice_get(slice, i) == IF i >= 0 /\ i < Len(slice) THEN slice[i + 1] ELSE NoByte

\* a next_index that does not stop at the length of the input
next_index_unbounded(s) == IF s.index = NoIndex THEN 0 ELSE s.index + 1

\* ByteStream::next_index
next_index(s) ==
    IF s.index = NoIndex THEN 0 ELSE Min(Len(s.slice), s.index + 1)

\* ByteStream::slice: &self.slice[start..self.next_index()]
slice(s, start) == SubSeq(s.slice, start + 1, next_index(s))

\* ByteStream::prev
prev(s) ==
    IF s.index = NoIndex \/ s.index = 0 THEN NoByte
    ELSE slice_get(s.slice, s.index - 1)

\* ByteStream::curr
curr(s) == IF s.index = NoIndex THEN NoByte ELSE slice_get(s.slice, s.index)

\* ByteStream::peek
peek(s) == slice_get(s.slice, IF s.index = NoIndex THEN 0 ELSE s.index + 1)

\* ByteStream::peek_next
peek_next(s) == slice_get(s.slice, IF s.index = NoIndex THEN 1 ELSE s.index + 2)

\* Iterator::next for ByteStream: the cursor after the call and the byte
ByteStream_next(s) ==
    [s |-> [s EXCEPT !.index = next_index(s)],
     b |-> slice_get(s.slice, next_index(s))]

\* a next_if that consumes the byte it refuses
next_if_consuming(s, accepted) ==
    IF peek(s) # NoByte /\ peek(s) \in accepted
    THEN ByteStream_next(s)
    ELSE [s |-> ByteStream_next(s).s, b |-> NoByte]

\* ByteStream::next_if, the predicate given as the set of bytes it accepts
next_if(s, accepted) ==
    IF peek(s) # NoByte /\ peek(s) \in accepted
    THEN ByteStream_next(s)
    ELSE [s |-> s, b |-> NoByte]

\* ByteStream::next_if_eq
next_if_eq(s, expected) == next_if(s, {expected})

\* ByteStream::consume_while: the cursor after the call and the count
RECURSIVE consume_while(_, _)
consume_while(s, accepted) ==
    LET n == next_if(s, accepted)
    IN  IF n.b = NoByte THEN [s |-> s, n |-> 0]
        ELSE LET r == consume_while(n.s, accepted)
             IN  [s |-> r.s, n |-> r.n + 1]

(***************************************************************************)
(* Tokens and items (tok/mod.rs).  A token is [t |-> variant, v |->        *)
(* payload]; an item of the iterator is Some(Ok(Spanned(s, tok, e))),      *)
(* Some(Err(Error {location, code})) or None.                              *)
(***************************************************************************)
Tok(t, v) == [t |-> t, v |-> v]

NoItem == [ok |-> FALSE, location |-> 0, code |-> "None"]
IsNone(item) == ~item.ok /\ item.code = "None"

\* an f64 read from a decimal literal: the rational m * 10^x, written
\* <<m, x>> with m not a multiple of ten, and <<0, 0>> for zero
RECURSIVE Dec(_, _)
Dec(m, x) ==
    IF m = 0 THEN <<0, 0>>
    ELSE IF m % 10 = 0 THEN Dec(m \div 10, x + 1)
    ELSE <<m, x>>

\* a conversion that always makes the list token
Token_from_list(t, v) == Tok(ListTagOf(t), v)

\* impl From<Vec<u8>>, From<Vec<i64>>, From<Vec<f64>>, From<Vec<Sym>> for
\* Token: one element is the scalar token, anything else the list token
Token_from(t, v) == IF Len(v) = 1 THEN Tok(t, v[1]) ELSE Tok(ListTagOf(t), v)

(***************************************************************************)
(* str::parse::<i64> and str::parse::<f64> on a byte string.  The inputs   *)
(* of the model are too short for an i64 to overflow or an f64 to round.   *)
(***************************************************************************)
RECURSIVE digits_value(_)
digits_value(ds) ==
    IF ds = <<>> THEN 0
    ELSE 10 * digits_value(SubSeq(ds, 1, Len(ds) - 1)) + (ds[Len(ds)] - B("0"))

parse_i64(x) ==
    LET signed == Len(x) >= 1 /\ x[1] \in {B("-"), B("+")}
        ds == IF signed THEN SubSeq(x, 2, Len(x)) ELSE x
    IN  IF ds # <<>> /\ \A i \in 1..Len(ds) : ds[i] \in Digits
        THEN [ok |-> TRUE,
              v |-> IF signed /\ x[1] = B("-") THEN -digits_value(ds)
                    ELSE digits_value(ds)]
        ELSE [ok |-> FALSE, v |-> "ParseIntError"]

\* the scan of str::parse::<f64>, byte by byte from index i: a is the sign,
\* the digits of the mantissa read so far (m, nd of them, scale after the
\* point), the exponent (eneg, ev, ned digits) and the part being read
RECURSIVE f64_scan(_, _, _)
f64_scan(x, i, a) ==
    IF i > Len(x) \/ ~a.ok THEN a
    ELSE CASE a.part = "sign" /\ x[i] \in {B("-"), B("+")} ->
                f64_scan(x, i + 1, [a EXCEPT !.part = "int", !.neg = (x[i] = B("-"))])
           [] a.part \in {"sign", "int"} /\ x[i] \in Digits ->
                f64_scan(x, i + 1, [a EXCEPT !.part = "int", !.nd = @ + 1,
                                             !.m = 10 * @ + (x[i] - B("0"))])
           [] a.part \in {"sign", "int"} /\ x[i] = B(".") ->
                f64_scan(x, i + 1, [a EXCEPT !.part = "frac"])
           [] a.part = "frac" /\ x[i] \in Digits ->
                f64_scan(x, i + 1, [a EXCEPT !.nd = @ + 1, !.scale = @ + 1,
                                             !.m = 10 * @ + (x[i] - B("0"))])
           [] a.part \in {"int", "frac"} /\ x[i] \in {B("e"), B("E")} ->
                f64_scan(x, i + 1, [a EXCEPT !.part = "exp sign"])
           [] a.part = "exp sign" /\ x[i] \in {B("-"), B("+")} ->
                f64_scan(x, i + 1, [a EXCEPT !.part = "exp", !.eneg = (x[i] = B("-"))])
           [] a.part \in {"exp sign", "exp"} /\ x[i] \in Digits ->
                f64_scan(x, i + 1, [a EXCEPT !.part = "exp", !.ned = @ + 1,
                                             !.ev = 10 * @ + (x[i] - B("0"))])
           [] OTHER -> [a EXCEPT !.ok = FALSE]

\* the value of a finished scan: some digit in the mantissa, and some digit
\* in the exponent when there is one
f64_value(a) ==
    IF a.ok /\ a.nd > 0 /\ (a.part \in {"exp sign", "exp"} => a.ned > 0)
    THEN [ok |-> TRUE,
          v |-> Dec(IF a.neg THEN -a.m ELSE a.m,
                    (IF a.eneg THEN -a.ev ELSE a.ev) - a.scale)]
    ELSE [ok |-> FALSE, v |-> "ParseFloatError"]

parse_f64(x) ==
    f64_value(f64_scan(x, 1, [ok |-> TRUE, part |-> "sign", neg |-> FALSE, m |-> 0,
                              nd |-> 0, scale |-> 0, eneg |-> FALSE, ev |-> 0,
                              ned |-> 0]))

\* <[u8]>::split(|&x| x == sep)
RECURSIVE split(_, _)
split(x, sep) ==
    IF \A i \in 1..Len(x) : x[i] # sep THEN <<x>>
    ELSE LET i == CHOOSE k \in 1..Len(x) :
                    x[k] = sep /\ \A j \in 1..(k - 1) : x[j] # sep
         IN  <<SubSeq(x, 1, i - 1)>> \o split(SubSeq(x, i + 1, Len(x)), sep)

(***************************************************************************)
(* The tokenizer (tok/mod.rs).  T is the Tokenizer, [stream, start]; a     *)
(* lexing function returns the tokenizer it leaves, the interner it leaves *)
(* (Sym::new interns) and the item it yields.                              *)
(***************************************************************************)
\* Tokenizer::new
Tokenizer_new(src) == [stream |-> ByteStream_new(src), start |-> 0]

Lexed(T, I, item) == [T |-> T, I |-> I, item |-> item]

\* a bump that leaves the start of the token where it was
bump_stale(T) == T

\* Tokenizer::bump
bump(T) == [T EXCEPT !.start = next_index(T.stream)]

\* Tokenizer::token: Some(Ok(Spanned(self.start, token, next_index)))
token(T, tok) ==
    [ok |-> TRUE, s |-> T.start, tok |-> tok, e |-> next_index(T.stream)]

\* Tokenizer::error: Some(Err(Error {location: self.start, code}))
error(T, code) == [ok |-> FALSE, location |-> T.start, code |-> code]

\* a comment that ends where it began
skip_comment_empty(T) == bump(T)

\* Tokenizer::skip_comment
skip_comment(T) ==
    bump([T EXCEPT !.stream = consume_while(T.stream, AnyByte \ {LF}).s])

\* Tokenizer::symbol
RECURSIVE symbol_loop(_, _, _)
symbol_loop(s, I, syms) ==
    LET start == next_index(s)
        s1 == consume_while(s, Alphanumeric \cup {B("."), B(":")}).s
        r == intern(I, slice(s1, start))
        more == next_if_eq(s1, BACKTICK)
    IN  IF more.b = NoByte
        THEN [s |-> s1, I |-> r.I, syms |-> Append(syms, r.sym)]
        ELSE symbol_loop(more.s, r.I, Append(syms, r.sym))

symbol(T, I) ==
    LET r == symbol_loop(T.stream, I, <<>>)
        T1 == [T EXCEPT !.stream = r.s]
    IN  Lexed(T1, r.I, token(T1, Token_from("Sym", r.syms)))

\* Tokenizer::string
RECURSIVE string_loop(_, _)
string_loop(T, string) ==
    LET c == next_if(T.stream, AnyByte \ {DQUOTE})
        e == ByteStream_next(c.s)
        Te == [T EXCEPT !.stream = e.s]
        close == next_if_eq(T.stream, DQUOTE)
        Tc == [T EXCEPT !.stream = close.s]
    IN  IF c.b = NoByte
        THEN IF close.b # NoByte
             THEN [T |-> Tc, item |-> token(Tc, Token_from("Char", string))]
             ELSE [T |-> Tc, item |-> error(Tc, "UnterminatedString")]
        ELSE IF c.b # BACKSLASH
        THEN string_loop([T EXCEPT !.stream = c.s], Append(string, c.b))
        ELSE CASE e.b \in {DQUOTE, BACKSLASH} -> string_loop(Te, Append(string, e.b))
               [] e.b = B("n") -> string_loop(Te, Append(string, LF))
               [] e.b = B("r") -> string_loop(Te, Append(string, CR))
               [] e.b = B("t") -> string_loop(Te, Append(string, TAB))
               [] e.b = NoByte -> [T |-> Te, item |-> error(Te, "UnterminatedEscape")]
               [] OTHER -> [T |-> Te, item |-> error(Te, "UnrecognizedEscape")]

\* a string whose errors are located where the scan stopped
string_open(T) ==
    LET r == string_loop(T, <<>>)
    IN  IF r.item.ok THEN r
        ELSE [r EXCEPT !.item.location = next_index(r.T.stream)]

string(T) == string_loop(T, <<>>)

\* Tokenizer::identifier
identifier(T, I) ==
    LET T1 == [T EXCEPT !.stream = consume_while(T.stream, Alphanumeric).s]
        r == intern(I, slice(T1.stream, T1.start))
    IN  Lexed(T1, r.I, token(T1, Tok("Identifier", r.sym)))

\* Tokenizer::skip_whitespace
skip_whitespace(T) ==
    bump([T EXCEPT !.stream =
              consume_while(T.stream, {TAB, FF, CR, B(" ")}).s])

\* Tokenizer::newline
newline(T) ==
    LET T1 == [T EXCEPT !.stream = consume_while(T.stream, {LF}).s]
    IN  [T |-> T1, item |-> token(T1, Tok("Semi", 0))]

\* a number start that must be a digit
is_num_start_digit(s) == peek(s) \in Digits

\* Tokenizer::is_num_start
is_num_start(s) ==
    IF peek(s) \in Digits THEN TRUE
    ELSE IF peek(s) = B(".") THEN peek_next(s) \in Digits
    ELSE FALSE

\* an exponent that takes no sign
exponent_unsigned(s) ==
    LET e == next_if_eq(s, B("e"))
        ds == consume_while(e.s, Digits)
    IN  IF e.b = NoByte THEN [s |-> s, seen |-> FALSE, digits |-> 0]
        ELSE [s |-> ds.s, seen |-> TRUE, digits |-> ds.n]

\* Tokenizer::number, the exponent of one number: whether the marker was
\* there and how many digits followed it
exponent(s) ==
    LET e == next_if_eq(s, B("e"))
        sign == next_if(e.s, {B("+"), B("-")})
        ds == consume_while(sign.s, Digits)
    IN  IF e.b = NoByte THEN [s |-> s, seen |-> FALSE, digits |-> 0]
        ELSE [s |-> ds.s, seen |-> TRUE, digits |-> ds.n]

\* parse_nums!, x.parse() as the type of the run
parse_num(x, is_float) == IF is_float THEN parse_f64(x) ELSE parse_i64(x)

\* parse_nums!, .collect::<Result<Vec<_>, _>>().map_or_else(..): the first
\* parse error, or the token of the vector
collect_nums(T, is_float, parsed) ==
    IF \E i \in 1..Len(parsed) : ~parsed[i].ok
    THEN error(T, parsed[CHOOSE i \in 1..Len(parsed) :
                            /\ ~parsed[i].ok
                            /\ \A j \in 1..(i - 1) : parsed[j].ok].v)
    ELSE token(T, Token_from(IF is_float THEN "Float" ELSE "Int",
                             [i \in 1..Len(parsed) |-> parsed[i].v]))

\* parse_nums!: every piece of the lexeme parsed as one type
parse_pieces(T, is_float, pieces) ==
    collect_nums(T, is_float,
                 [i \in 1..Len(pieces) |-> parse_num(pieces[i], is_float)])

parse_nums(T, is_float) ==
    [T |-> T,
     item |-> parse_pieces(T, is_float, split(slice(T.stream, T.start), B(" ")))]

\* Tokenizer::number, the digits and the point of one number: the cursor
\* after them and whether they make the run a float
fraction(point) ==
    [s |-> consume_while(point.s, Digits).s, float |-> point.b # NoByte]

mantissa(s) ==
    IF curr(s) = B(".")
    THEN [s |-> consume_while(s, Digits).s, float |-> TRUE]
    ELSE fraction(next_if_eq(consume_while(s, Digits).s, B(".")))

\* Tokenizer::number: the loop over the numbers of a run.  start is the
\* offset of the number being lexed, m and ex what its mantissa and its
\* exponent left, backtrack the cursor before the space and space the
\* cursor on it.
RECURSIVE number_loop(_, _, _), number_exponent(_, _, _, _),
          number_ahead(_, _, _, _), number_space(_, _, _, _)

\* a lookahead that restores the cursor to where the call found it
number_space_rewind(T, is_float, backtrack, space) ==
    IF ~is_num_start(next_if_eq(space, B("-")).s)
    THEN parse_nums([T EXCEPT !.stream = [backtrack EXCEPT !.index = T.start - 1]],
                    is_float)
    ELSE number_loop([T EXCEPT !.stream = next_if_eq(space, B("-")).s],
                     is_float, next_index(space))

number_space(T, is_float, backtrack, space) ==
    IF ~is_num_start(next_if_eq(space, B("-")).s)
    THEN parse_nums([T EXCEPT !.stream = backtrack], is_float)
    ELSE number_loop([T EXCEPT !.stream = next_if_eq(space, B("-")).s],
                     is_float, next_index(space))

number_ahead(T, is_float, start, ex) ==
    IF ex.seen /\ ex.digits = 0
    THEN [T |-> [stream |-> ex.s, start |-> start],
          item |-> error([stream |-> ex.s, start |-> start],
                         "UnterminatedFloatExponent")]
    ELSE CASE peek(ex.s) = B(" ") ->
                number_space(T, is_float \/ ex.seen, ex.s, ByteStream_next(ex.s).s)
           [] peek(ex.s) \in {B(".")} \cup Letters ->
                [T |-> [stream |-> ex.s, start |-> start],
                 item |-> error([stream |-> ex.s, start |-> start],
                                "InvalidNumber")]
           [] OTHER ->
                parse_nums([T EXCEPT !.stream = ex.s], is_float \/ ex.seen)

number_exponent(T, is_float, start, m) ==
    number_ahead(T, is_float \/ m.float, start, exponent(m.s))

number_loop(T, is_float, start) ==
    number_exponent(T, is_float, start, mantissa(T.stream))

number(T) == number_loop(T, FALSE, T.start)

\* the arms of next() that are one byte and one token
Single ==
    (B("(") :> Tok("LtParen", 0)) @@ (B(")") :> Tok("RtParen", 0)) @@
    (B("{") :> Tok("LtBrace", 0)) @@ (B("}") :> Tok("RtBrace", 0)) @@
    (B("[") :> Tok("LtBracket", 0)) @@ (B("]") :> Tok("RtBracket", 0)) @@
    (B(";") :> Tok("Semi", 0)) @@
    (B(":") :> Tok("Verb", "Colon")) @@ (B("+") :> Tok("Verb", "Plus")) @@
    (B("*") :> Tok("Verb", "Star")) @@ (B("%") :> Tok("Verb", "Percent")) @@
    (B("&") :> Tok("Verb", "And")) @@ (B("|") :> Tok("Verb", "Pipe")) @@
    (B("^") :> Tok("Verb", "Caret")) @@ (B("=") :> Tok("Verb", "Eq")) @@
    (B("<") :> Tok("Verb", "Lt")) @@ (B(">") :> Tok("Verb", "Gt")) @@
    (B("$") :> Tok("Verb", "Dollar")) @@ (B(",") :> Tok("Verb", "Comma")) @@
    (B("#") :> Tok("Verb", "Hash")) @@ (B("_") :> Tok("Verb", "Underscore")) @@
    (B("~") :> Tok("Verb", "Tilde")) @@ (B("!") :> Tok("Verb", "Bang")) @@
    (B("?") :> Tok("Verb", "Question")) @@ (B("@") :> Tok("Verb", "At"))

\* the arms of next() that take a following : into the token
WithColon ==
    (B("0") :> Tok("Verb", "ZeroColon")) @@ (B("1") :> Tok("Verb", "OneColon")) @@
    (B("2") :> Tok("Verb", "TwoColon")) @@
    (B("'") :> Tok("Adverb", "QuoteColon")) @@
    (B("/") :> Tok("Adverb", "SlashColon")) @@
    (BACKSLASH :> Tok("Adverb", "BackslashColon"))

Step(at, what) == [at |-> at, what |-> what]

\* Iterator::next for Tokenizer.  log is the history of the call: the offset
\* of every byte the loop dispatched on and whether it made a comment, a
\* run of whitespace or the item.
RECURSIVE Tokenizer_next(_, _, _)
Tokenizer_next(T, I, log) ==
    LET n == ByteStream_next(T.stream)
        c == n.b
        at == n.s.index
        T1 == [T EXCEPT !.stream = n.s]
        T2 == [T1 EXCEPT !.stream = ByteStream_next(n.s).s]
        done(r) == [T |-> bump(r.T), I |-> r.I, item |-> r.item,
                    log |-> Append(log, Step(at, "item"))]
        plain(Tk, item) == done(Lexed(Tk, I, item))
        lexed(r) == done(Lexed(r.T, I, r.item))
    IN  CASE c = NoByte -> [T |-> T1, I |-> I, item |-> NoItem, log |-> log]
          [] c \in DOMAIN Single -> plain(T1, token(T1, Single[c]))
          [] c = B("-") ->
                IF /\ prev(T1.stream) \notin
                          {B(")"), B("}"), B("]")} \cup Alphanumeric
                   /\ is_num_start(T1.stream)
                THEN lexed(number(T1))
                ELSE plain(T1, token(T1, Tok("Verb", "Minus")))
          [] c = B(".") ->
                IF peek(T1.stream) \in Digits
                THEN lexed(number(T1))
                ELSE plain(T1, token(T1, Tok("Verb", "Dot")))
          [] c \in {B("0"), B("1"), B("2")} /\ peek(T1.stream) = B(":") ->
                plain(T2, token(T2, WithColon[c]))
          [] c = B("'") ->
                IF peek(T1.stream) = B(":")
                THEN plain(T2, token(T2, WithColon[c]))
                ELSE plain(T1, token(T1, Tok("Adverb", "Quote")))
          [] c = B("/") ->
                IF prev(T1.stream) = NoByte \/ prev(T1.stream) \in AsciiWhitespace
                THEN Tokenizer_next(skip_comment(T1), I,
                                    Append(log, Step(at, "comment")))
                ELSE IF peek(T1.stream) = B(":")
                THEN plain(T2, token(T2, WithColon[c]))
                ELSE plain(T1, token(T1, Tok("Adverb", "Slash")))
          [] c = BACKSLASH ->
                IF peek(T1.stream) = B(":")
                THEN plain(T2, token(T2, WithColon[c]))
                ELSE plain(T1, token(T1, Tok("Adverb", "Backslash")))
          [] c = BACKTICK -> done(symbol(T1, I))
          [] c = DQUOTE -> lexed(string(T1))
          [] c \in Letters -> done(identifier(T1, I))
          [] c \in Digits -> lexed(number(T1))
          [] c \in {TAB, FF, CR, B(" ")} ->
                Tokenizer_next(skip_whitespace(T1), I,
                               Append(log, Step(at, "whitespace")))
          [] c = LF -> lexed(newline(T1))
          [] OTHER -> plain(T1, error(T1, "UnrecognizedToken"))

(***************************************************************************)
(* SpecTok: any sequence of next() calls on a tokenizer made for one of    *)
(* the inputs, every byte string over SrcBytes up to MaxSrcLen bytes.      *)
(***************************************************************************)
SrcBytes ==
    {B("1"), B("."), B("e"), B("E"), B("-"), B(" "), B("/"), B(":"), B(")"), LF}

Inputs == SeqsUpTo(SrcBytes, MaxSrcLen)

\* Tokenizer::new(src) for one of the inputs
TokenizerMade(inputs) ==
    /\ \E input \in inputs : tokenizer = Tokenizer_new(input)
    /\ items = <<>>
    /\ steps = <<>>
    /\ atEnd = FALSE
    /\ INTERNER = Interner_new
    /\ issued = {}
    /\ lastName = <<>>
    /\ lastSym = -1
    /\ EvalIdle
    /\ ArithIdle
    /\ StreamIdle
    /\ ParseIdle
    /\ ThreadsIdle

InitTok == TokenizerMade(Inputs)

\* one call of next()
TokNext ==
    LET r == Tokenizer_next(tokenizer, INTERNER, <<>>)
    IN  /\ tokenizer' = r.T
        /\ INTERNER' = r.I
        /\ items' = IF IsNone(r.item) THEN items ELSE Append(items, r.item)
        /\ steps' = steps \o r.log
        /\ atEnd' = IsNone(r.item)
        /\ UNCHANGED <<issued, lastName, lastSym, evalVars, arithVars,
                       streamVars, parseRes, threadVars>>

NextTok == TokNext

SpecTok == InitTok /\ [][NextTok]_vars

\* the input of the behaviour
src == tokenizer.stream.slice

(***************************************************************************)
(* SpecAdverbs: the same, on the inputs that are made of the adverb bytes, *)
(* the colon, whitespace and a letter.                                     *)
(***************************************************************************)
AdverbBytes == {B("'"), B("/"), BACKSLASH, B(":"), B(" "), LF, B("e")}

AdverbInputs == SeqsUpTo(AdverbBytes, MaxSrcLen)

InitAdverbs == TokenizerMade(AdverbInputs)

SpecAdverbs == InitAdverbs /\ [][NextTok]_vars

(***************************************************************************)
(* Claims about the tokenizer, checked under SpecTok.  Offsets count from  *)
(* 0: byte p of the input is src[p + 1].                                   *)
(***************************************************************************)
ByteAt(p) == slice_get(src, p)

\* the steps that made an item, in order: the k-th made items[k]
ItemSteps == SelectSeq(steps, LAMBDA st : st.what = "item")

\* the position in steps of the step that made items[i]
StepOfItem(i) ==
    CHOOSE k \in 1..Len(steps) :
        /\ steps[k].what = "item"
        /\ Cardinality({j \in 1..k : steps[j].what = "item"}) = i

\* where the lexing of items[i] stopped: the next byte dispatched on, or
\* the cursor when nothing was dispatched on since
StoppedAt(i) ==
    IF StepOfItem(i) < Len(steps) THEN steps[StepOfItem(i) + 1].at
    ELSE next_index(tokenizer.stream)

\* byte p, at or after offset from, is inside a comment: a / at the start
\* of the input or after whitespace, and no newline from it up to p
InComment(from, p) ==
    \E c \in from..p :
        /\ ByteAt(c) = B("/")
        /\ c = 0 \/ ByteAt(c - 1) \in AsciiWhitespace
        /\ \A q \in c..p : ByteAt(q) # LF

\* C16: every token has a span [s, e) with s < e <= the input length that
\* is the bytes it was lexed from (from the byte next() dispatched on up to
\* where the lexing stopped); the spans of successive tokens increase and
\* do not overlap, and the bytes between two consecutive tokens are
\* whitespace or comment bytes.
C16_Spans ==
    /\ Len(ItemSteps) = Len(items)
    /\ \A i \in 1..Len(items) :
          items[i].ok =>
              /\ 0 <= items[i].s
              /\ items[i].s < items[i].e
              /\ items[i].e <= Len(src)
              /\ items[i].s = steps[StepOfItem(i)].at
              /\ items[i].e = StoppedAt(i)
    /\ \A i, j \in 1..Len(items) :
          (i < j /\ items[i].ok /\ items[j].ok) => items[j].s >= items[i].e
    /\ \A i \in 1..(Len(items) - 1) :
          (items[i].ok /\ items[i + 1].ok) =>
              \A p \in items[i].e..(items[i + 1].s - 1) :
                  \/ ByteAt(p) \in {TAB, FF, CR, B(" ")}
                  \/ InComment(items[i].e, p)

\* in "1 /" and a newline the lexer of the number looks past the space at
\* the /, backtracks and ends the token at offset 1; the space and the
\* comment lie between it and the token of the newline
C16_Witness ==
    /\ src = <<B("1"), B(" "), B("/"), LF>>
    /\ items = <<[ok |-> TRUE, s |-> 0, tok |-> Tok("Int", 1), e |-> 1],
                 [ok |-> TRUE, s |-> 3, tok |-> Tok("Semi", 0), e |-> 4]>>

\* the item made by the step at position k of steps
ItemOfStep(k) == items[Cardinality({j \in 1..k : steps[j].what = "item"})]

NumberTokens == {"Int", "Float", "IntList", "FloatList"}
NumberErrors ==
    {"UnterminatedFloatExponent", "InvalidNumber", "ParseIntError",
     "ParseFloatError"}

\* the bytes from offset p on begin a number: a digit, or . and a digit
NumberStartsAt(p) ==
    \/ ByteAt(p) \in Digits
    \/ ByteAt(p) = B(".") /\ ByteAt(p + 1) \in Digits

\* C17: a - that next() dispatches on begins a number literal exactly when
\* the byte before it is not ), }, ] or an ASCII letter or digit (or there
\* is no byte before it) and a digit, or . and a digit, follows it; in
\* every other case it is the one-byte token of the verb Minus.
C17_MinusSign ==
    \A k \in 1..Len(steps) :
        ByteAt(steps[k].at) = B("-") =>
            LET p == steps[k].at
                item == ItemOfStep(k)
                sign ==
                    /\ p = 0 \/ ByteAt(p - 1) \notin
                           {B(")"), B("}"), B("]")} \cup Alphanumeric
                    /\ NumberStartsAt(p + 1)
            IN  /\ steps[k].what = "item"
                /\ sign =>
                      \/ /\ item.ok
                         /\ item.s = p
                         /\ item.e > p + 1
                         /\ item.tok.t \in NumberTokens
                      \/ /\ ~item.ok
                         /\ item.code \in NumberErrors
                /\ ~sign =>
                      item = [ok |-> TRUE, s |-> p, tok |-> Tok("Verb", "Minus"),
                              e |-> p + 1]

\* after a space, -.1 is the float -0.1
C17_Witness ==
    /\ src = <<B(" "), B("-"), B("."), B("1")>>
    /\ steps = <<Step(0, "whitespace"), Step(1, "item")>>
    /\ items = <<[ok |-> TRUE, s |-> 1, tok |-> Tok("Float", <<-1, -1>>), e |-> 4]>>

\* the bytes of the span of an item
Lexeme(item) == SubSeq(src, item.s + 1, item.e)

\* C18: a number token is one run of numbers separated by single spaces,
\* as long as the input allows, with one classification: when any byte of
\* the run is a . or an exponent marker every number is read as a float
\* and the token is a FloatList, otherwise an IntList; a run of exactly one
\* number is a scalar Float or Int.  A digit next() dispatches on begins
\* such a token (0:, 1: and 2: are verbs) or a number error.
C18_NumberRun ==
    /\ \A i \in 1..Len(items) :
          (items[i].ok /\ items[i].tok.t \in NumberTokens) =>
              LET tok == items[i].tok
                  pieces == split(Lexeme(items[i]), B(" "))
                  n == Len(pieces)
                  floats == \E p \in items[i].s..(items[i].e - 1) :
                                ByteAt(p) \in {B("."), B("e"), B("E")}
                  value(x) == IF floats THEN parse_f64(x) ELSE parse_i64(x)
              IN  /\ \A k \in 1..n : pieces[k] # <<>> /\ value(pieces[k]).ok
                  /\ tok.t = CASE n = 1 /\ floats -> "Float"
                               [] n = 1 /\ ~floats -> "Int"
                               [] n > 1 /\ floats -> "FloatList"
                               [] OTHER -> "IntList"
                  /\ n = 1 => tok.v = value(pieces[1]).v
                  /\ n > 1 => tok.v = [k \in 1..n |-> value(pieces[k]).v]
                  /\ ~ /\ ByteAt(items[i].e) = B(" ")
                       /\ \/ NumberStartsAt(items[i].e + 1)
                          \/ /\ ByteAt(items[i].e + 1) = B("-")
                             /\ NumberStartsAt(items[i].e + 2)
    /\ \A k \in 1..Len(steps) :
          (/\ ByteAt(steps[k].at) \in Digits
           /\ ~ /\ ByteAt(steps[k].at) \in {B("0"), B("1"), B("2")}
                /\ ByteAt(steps[k].at + 1) = B(":")) =>
              /\ steps[k].what = "item"
              /\ \/ /\ ItemOfStep(k).ok
                    /\ ItemOfStep(k).tok.t \in NumberTokens
                    /\ ItemOfStep(k).s = steps[k].at
                 \/ /\ ~ItemOfStep(k).ok
                    /\ ItemOfStep(k).code \in NumberErrors

\* 1 .1 is the FloatList 1.0 0.1: the 1 is read as a float
C18_Witness ==
    /\ src = <<B("1"), B(" "), B("."), B("1")>>
    /\ items = <<[ok |-> TRUE, s |-> 0,
                  tok |-> Tok("FloatList", << <<1, 0>>, <<1, -1>> >>), e |-> 4]>>

\* the offset after the run of digits that starts at offset p
RECURSIVE AfterDigits(_)
AfterDigits(p) == IF ByteAt(p) \in Digits THEN AfterDigits(p + 1) ELSE p

\* the offset after the sign, digits, point and digits of the number that
\* starts at offset q
MantissaEnd(q) ==
    LET i == AfterDigits(IF ByteAt(q) = B("-") THEN q + 1 ELSE q)
    IN  IF ByteAt(i) = B(".") THEN AfterDigits(i + 1) ELSE i

\* the offset after the sign and digits that follow an exponent marker at r
ExponentEnd(r) ==
    AfterDigits(IF ByteAt(r + 1) \in {B("+"), B("-")} THEN r + 2 ELSE r + 1)

ExponentDigits(r) ==
    ExponentEnd(r) > (IF ByteAt(r + 1) \in {B("+"), B("-")} THEN r + 2 ELSE r + 1)

\* next() dispatches on offset p into the lexing of a number
NumberDispatched(p) ==
    \/ /\ ByteAt(p) \in Digits
       /\ ~(ByteAt(p) \in {B("0"), B("1"), B("2")} /\ ByteAt(p + 1) = B(":"))
    \/ ByteAt(p) = B(".") /\ ByteAt(p + 1) \in Digits
    \/ /\ ByteAt(p) = B("-")
       /\ p = 0 \/ ByteAt(p - 1) \notin {B(")"), B("}"), B("]")} \cup Alphanumeric
       /\ NumberStartsAt(p + 1)

\* the starts of the numbers of the run whose first number starts at q,
\* up to the first one that ends the lexing, for the given exponent markers
RECURSIVE RunNumbers(_, _)
RunNumbers(q, markers) ==
    LET r == MantissaEnd(q)
        marked == ByteAt(r) \in markers
        d == IF marked THEN ExponentEnd(r) ELSE r
    IN  IF /\ marked => ExponentDigits(r)
           /\ ByteAt(d) = B(" ")
           /\ \/ NumberStartsAt(d + 1)
              \/ ByteAt(d + 1) = B("-") /\ NumberStartsAt(d + 2)
        THEN {q} \cup RunNumbers(d + 1, markers)
        ELSE {q}

\* every number of a run that is followed by one of the markers: with a
\* digit after the marker and its optional sign, the number and its
\* exponent are part of the float token of the run, unless a later byte
\* makes the run an error; with no digit there, the item is
\* UnterminatedFloatExponent at the start of that number
ExponentsLexed(markers) ==
    \A k \in 1..Len(steps) :
        (steps[k].what = "item" /\ NumberDispatched(steps[k].at)) =>
            \A q \in RunNumbers(steps[k].at, markers) :
                LET item == ItemOfStep(k)
                    r == MantissaEnd(q)
                    d == ExponentEnd(r)
                IN  ByteAt(r) \in markers =>
                        IF ExponentDigits(r)
                        THEN \/ /\ item.ok
                                /\ item.tok.t \in {"Float", "FloatList"}
                                /\ item.s = steps[k].at
                                /\ item.e >= d
                             \/ /\ ~item.ok
                                /\ item.code = "InvalidNumber"
                                /\ item.location = q
                                /\ ByteAt(d) \in {B(".")} \cup Letters
                             \/ /\ ~item.ok
                                /\ item.location > q
                        ELSE item = [ok |-> FALSE, location |-> q,
                                     code |-> "UnterminatedFloatExponent"]

\* C19 as claimed: the exponent marker is e or E.
C19_ExponentAnyCase == ExponentsLexed({B("e"), B("E")})

\* C19 amended: the exponent marker is the lower-case e only; a number
\* followed by E is an InvalidNumber error at the start of that number.
C19_ExponentLowerCase ==
    /\ ExponentsLexed({B("e")})
    /\ \A k \in 1..Len(steps) :
          (steps[k].what = "item" /\ NumberDispatched(steps[k].at)) =>
              \A q \in RunNumbers(steps[k].at, {B("e")}) :
                  ByteAt(MantissaEnd(q)) = B("E") =>
                      ItemOfStep(k) = [ok |-> FALSE, location |-> q,
                                       code |-> "InvalidNumber"]

\* in 1 1e the exponent of the second number has no digit: the error is at
\* offset 2, the start of that number, not at the start of the run
C19_Witness ==
    /\ src = <<B("1"), B(" "), B("1"), B("e")>>
    /\ items = <<[ok |-> FALSE, location |-> 2,
                  code |-> "UnterminatedFloatExponent"]>>

(***************************************************************************)
(* Claims about the adverbs and the comment, checked under SpecAdverbs.    *)
(***************************************************************************)
AdverbOf ==
    (B("'") :> "Quote") @@ (B("/") :> "Slash") @@ (BACKSLASH :> "Backslash")

AdverbColonOf ==
    (B("'") :> "QuoteColon") @@ (B("/") :> "SlashColon") @@
    (BACKSLASH :> "BackslashColon")

\* offset p is the start of the input or directly after whitespace
AfterWhitespace(p) == p = 0 \/ ByteAt(p - 1) \in AsciiWhitespace

\* the step at position k of steps skipped a comment through the end of
\* its line: the next byte dispatched on is the first newline after it, or
\* the input has no newline after it and is at its end
SkippedLine(k) ==
    /\ steps[k].what = "comment"
    /\ IF k < Len(steps)
       THEN /\ ByteAt(steps[k + 1].at) = LF
            /\ \A q \in steps[k].at..(steps[k + 1].at - 1) : ByteAt(q) # LF
       ELSE /\ atEnd
            /\ \A q \in steps[k].at..(Len(src) - 1) : ByteAt(q) # LF

\* the step at position k of steps made the adverb token of n bytes
MadeAdverb(k, name, n) ==
    /\ steps[k].what = "item"
    /\ ItemOfStep(k) = [ok |-> TRUE, s |-> steps[k].at,
                        tok |-> Tok("Adverb", name), e |-> steps[k].at + n]

\* C20 as claimed: a ', / or \ directly followed by : is always the
\* two-character adverb; only a / that is not followed by : begins a
\* comment, when it is at the start of a line or directly after whitespace.
C20_TwoCharacterFirst ==
    \A k \in 1..Len(steps) :
        LET p == steps[k].at
        IN  /\ (ByteAt(p) \in DOMAIN AdverbOf /\ ByteAt(p + 1) = B(":")) =>
                   MadeAdverb(k, AdverbColonOf[ByteAt(p)], 2)
            /\ steps[k].what = "comment" =>
                   /\ ByteAt(p) = B("/")
                   /\ ByteAt(p + 1) # B(":")
                   /\ AfterWhitespace(p)
                   /\ SkippedLine(k)

\* C20 amended: a / at the start of the input or directly after whitespace
\* (a newline included) begins a comment whether or not a : follows it; the
\* comment runs up to the newline and makes no token.  Every ' and \ and
\* every other / is an adverb token, the two-character one when a :
\* follows directly.
C20_CommentFirst ==
    \A k \in 1..Len(steps) :
        LET p == steps[k].at
            comment == ByteAt(p) = B("/") /\ AfterWhitespace(p)
        IN  /\ comment => SkippedLine(k)
            /\ steps[k].what = "comment" => comment
            /\ (ByteAt(p) \in DOMAIN AdverbOf /\ ~comment) =>
                   IF ByteAt(p + 1) = B(":")
                   THEN MadeAdverb(k, AdverbColonOf[ByteAt(p)], 2)
                   ELSE MadeAdverb(k, AdverbOf[ByteAt(p)], 1)

\* a space, /: and a newline: the /: is a comment, the only token is the
\* one of the newline
C20_Witness ==
    /\ src = <<B(" "), B("/"), B(":"), LF>>
    /\ steps = <<Step(0, "whitespace"), Step(1, "comment"), Step(3, "item")>>
    /\ items = <<[ok |-> TRUE, s |-> 3, tok |-> Tok("Semi", 0), e |-> 4]>>

(***************************************************************************)
(* SpecStrings: sequences of next() calls on the inputs made of the double *)
(* quote, the backslash, the letters of the escapes and one other letter.  *)
(***************************************************************************)
StringBytes == {DQUOTE, BACKSLASH, B("n"), B("r"), B("t"), B("q")}

StringInputs == SeqsUpTo(StringBytes, MaxSrcLen)

InitStrings == TokenizerMade(StringInputs)

SpecStrings == InitStrings /\ [][NextTok]_vars

\* the escapes of the claim: the byte after the backslash and what it
\* stands for
Escapes ==
    (DQUOTE :> DQUOTE) @@ (BACKSLASH :> BACKSLASH) @@ (B("n") :> LF) @@
    (B("r") :> CR) @@ (B("t") :> TAB)

\* the reading of a literal whose bytes after the opening quote begin at
\* offset p, out being the bytes decoded so far: it is closed at the first
\* quote that no backslash escapes, or fails at the first escape that is
\* incomplete or not one of Escapes, or at the end of the input
RECURSIVE Decoded(_, _)
Decoded(p, out) ==
    CASE ByteAt(p) = NoByte -> [kind |-> "UnterminatedString", bytes |-> out, end |-> p]
      [] ByteAt(p) = DQUOTE -> [kind |-> "closed", bytes |-> out, end |-> p + 1]
      [] ByteAt(p) = BACKSLASH /\ ByteAt(p + 1) = NoByte ->
            [kind |-> "UnterminatedEscape", bytes |-> out, end |-> p + 1]
      [] ByteAt(p) = BACKSLASH /\ ByteAt(p + 1) \in DOMAIN Escapes ->
            Decoded(p + 2, Append(out, Escapes[ByteAt(p + 1)]))
      [] ByteAt(p) = BACKSLASH ->
            [kind |-> "UnrecognizedEscape", bytes |-> out, end |-> p + 2]
      [] OTHER -> Decoded(p + 1, Append(out, ByteAt(p)))

\* the steps of next() that dispatched on a double quote
QuoteSteps == {k \in 1..Len(steps) : ByteAt(steps[k].at) = DQUOTE}

\* C21: a literal ends at the first unescaped double quote and decodes the
\* five escapes; one decoded byte makes a Char token, any other number
\* (none included) a CharList token, spanning the two quotes; the first
\* escape that is not one of the five makes UnrecognizedEscape, a backslash
\* that ends the input UnterminatedEscape, the end of the input before a
\* closing quote UnterminatedString, each located at the opening quote.
C21_StringLiteral ==
    \A k \in QuoteSteps :
        LET at == steps[k].at
            d == Decoded(at + 1, <<>>)
            item == ItemOfStep(k)
        IN  /\ steps[k].what = "item"
            /\ IF d.kind = "closed"
               THEN /\ item.ok
                    /\ item.s = at
                    /\ item.e = d.end
                    /\ item.tok = IF Len(d.bytes) = 1
                                  THEN Tok("Char", d.bytes[1])
                                  ELSE Tok("CharList", d.bytes)
               ELSE /\ ~item.ok
                    /\ item.code = d.kind
                    /\ item.location = at

\* q and, after it, a backslash and a letter that is no escape, in quotes
\* that are never closed: the identifier q, then UnrecognizedEscape located
\* at the opening quote, offset 1
C21_Witness ==
    /\ src = <<B("q"), DQUOTE, BACKSLASH, B("q")>>
    /\ Len(items) = 2
    /\ items[2] = [ok |-> FALSE, location |-> 1, code |-> "UnrecognizedEscape"]

(***************************************************************************)
(* SpecStream: any sequence of calls of next, next_if, next_if_eq and      *)
(* consume_while on a ByteStream made for one of the inputs, every byte    *)
(* string over StreamBytes up to MaxStreamLen bytes.  A predicate is the   *)
(* set of the bytes it accepts.  next() is called at most MaxPastEnd times *)
(* after the call that returned None.                                      *)
(***************************************************************************)
StreamBytes == {B("h"), B("e"), B("l")}

StreamInputs == SeqsUpTo(StreamBytes, MaxStreamLen)

Predicates == SUBSET StreamBytes

\* ByteStream::new(slice) for one of the inputs
InitStream ==
    /\ \E input \in StreamInputs : cursor = ByteStream_new(input)
    /\ returned = <<>>
    /\ lastCall = [op |-> "none"]
    /\ InternIdle
    /\ EvalIdle
    /\ ArithIdle
    /\ TokIdle
    /\ ParseIdle
    /\ ThreadsIdle

\* the bytes next() has returned so far, and whether it has returned None
Consumed == Cardinality({i \in 1..Len(returned) : returned[i] # NoByte})
Ended == \E i \in 1..Len(returned) : returned[i] = NoByte

\* the record of a call: the method, its predicate, the cursor and the
\* number of bytes consumed before it, and what it returned
Called(op, accepted, ret) ==
    [op |-> op, accepted |-> accepted, before |-> cursor, at |-> Consumed,
     ret |-> ret]

\* the bytes the next_if calls of one consume_while return
RECURSIVE Taken(_, _)
Taken(s, accepted) ==
    LET n == next_if(s, accepted)
    IN  IF n.b = NoByte THEN <<>> ELSE <<n.b>> \o Taken(n.s, accepted)

\* test.next()
StreamNext ==
    LET r == ByteStream_next(cursor)
    IN  /\ Len(returned) - Consumed <= MaxPastEnd
        /\ cursor' = r.s
        /\ returned' = Append(returned, r.b)
        /\ lastCall' = Called("next", {}, r.b)
        /\ UNCHANGED <<internVars, evalVars, arithVars, tokVars, parseRes,
                       threadVars>>

\* test.next_if(func)
StreamNextIf(accepted) ==
    LET r == next_if(cursor, accepted)
    IN  /\ cursor' = r.s
        /\ returned' = IF r.b = NoByte THEN returned ELSE Append(returned, r.b)
        /\ lastCall' = Called("next_if", accepted, r.b)
        /\ UNCHANGED <<internVars, evalVars, arithVars, tokVars, parseRes,
                       threadVars>>

\* test.next_if_eq(expected)
StreamNextIfEq(expected) ==
    LET r == next_if_eq(cursor, expected)
    IN  /\ cursor' = r.s
        /\ returned' = IF r.b = NoByte THEN returned ELSE Append(returned, r.b)
        /\ lastCall' = Called("next_if_eq", {expected}, r.b)
        /\ UNCHANGED <<internVars, evalVars, arithVars, tokVars, parseRes,
                       threadVars>>

\* test.consume_while(func)
StreamConsumeWhile(accepted) ==
    LET r == consume_while(cursor, accepted)
    IN  /\ cursor' = r.s
        /\ returned' = returned \o Taken(cursor, accepted)
        /\ lastCall' = Called("consume_while", accepted, r.n)
        /\ UNCHANGED <<internVars, evalVars, arithVars, tokVars, parseRes,
                       threadVars>>

NextStream ==
    \/ StreamNext
    \/ \E accepted \in Predicates : StreamNextIf(accepted)
    \/ \E expected \in StreamBytes : StreamNextIfEq(expected)
    \/ \E accepted \in Predicates : StreamConsumeWhile(accepted)

SpecStream == InitStream /\ [][NextStream]_vars

\* byte p of the input of the cursor, none when p is out of range
InputByte(p) ==
    IF p >= 0 /\ p < Len(cursor.slice) THEN cursor.slice[p + 1] ELSE NoByte

\* C25: the advances return the bytes of the input in order; after k of
\* them have returned a byte, and before one has returned none, curr() is
\* byte k-1, prev() byte k-2, peek() byte k and peek_next() byte k+1, none
\* when out of range (k = 0: before the first advance); once an advance has
\* returned none every later advance returns none, prev() stays the last
\* byte of the input and curr(), peek() and peek_next() are none.
C25_BoundsSafe ==
    LET k == Consumed
    IN  /\ k <= Len(cursor.slice)
        /\ \A i \in 1..Len(returned) :
              returned[i] = IF i <= k THEN cursor.slice[i] ELSE NoByte
        /\ ~Ended =>
              /\ curr(cursor) = InputByte(k - 1)
              /\ prev(cursor) = InputByte(k - 2)
              /\ peek(cursor) = InputByte(k)
              /\ peek_next(cursor) = InputByte(k + 1)
        /\ Ended =>
              /\ k = Len(cursor.slice)
              /\ prev(cursor) = InputByte(k - 1)
              /\ curr(cursor) = NoByte
              /\ peek(cursor) = NoByte
              /\ peek_next(cursor) = NoByte
              /\ ByteStream_next(cursor).b = NoByte

\* "he" read to its end and two advances more
C25_Witness ==
    /\ cursor.slice = <<B("h"), B("e")>>
    /\ returned = <<B("h"), B("e"), NoByte, NoByte, NoByte>>
    /\ prev(cursor) = B("e")

\* C26: next_if and next_if_eq consume and return the next byte exactly
\* when there is one and the predicate accepts it; otherwise they return
\* none and leave the cursor as it was, so that the next advance returns
\* the byte refused.  consume_while returns the number of bytes it
\* consumed, all accepted, and stops before the first byte refused.
C26_ConditionalAdvance ==
    LET c == lastCall
    IN  /\ c.op \in {"next_if", "next_if_eq"} =>
              IF InputByte(c.at) # NoByte /\ InputByte(c.at) \in c.accepted
              THEN /\ c.ret = InputByte(c.at)
                   /\ Consumed = c.at + 1
                   /\ curr(cursor) = c.ret
              ELSE /\ c.ret = NoByte
                   /\ Consumed = c.at
                   /\ cursor = c.before
                   /\ ByteStream_next(cursor).b = InputByte(c.at)
        /\ c.op = "consume_while" =>
              /\ c.ret >= 0
              /\ Consumed = c.at + c.ret
              /\ \A p \in c.at..(c.at + c.ret - 1) : InputByte(p) \in c.accepted
              /\ InputByte(c.at + c.ret) \notin c.accepted
              /\ peek(cursor) = InputByte(c.at + c.ret)

\* in "hel", after h was taken, a next_if that accepts h and l refuses e
C26_Witness ==
    /\ cursor.slice = <<B("h"), B("e"), B("l")>>
    /\ returned = <<B("h")>>
    /\ lastCall.op = "next_if"
    /\ lastCall.accepted = {B("h"), B("l")}
    /\ lastCall.ret = NoByte
    /\ peek(cursor) = B("e")

(***************************************************************************)
(* The parser (parser.rs).  The state of a Parser is tokens_iter: the      *)
(* vector of spanned tokens and the position i of the next one.  A PResult *)
(* is carried with the parser it leaves: Ok(Some(ast)) and Ok(None) are    *)
(* ok with ast a node or None, Err(ParserError) is not ok.                 *)
(***************************************************************************)
TokenKinds ==
    {"LtParen", "RtParen", "LtBrace", "RtBrace", "LtBracket", "RtBracket",
     "Semi", "Verb", "Adverb", "Char", "Int", "Float", "Sym", "CharList",
     "IntList", "FloatList", "SymList", "Identifier"}

\* the tokens Parser::subexpr makes a leaf ASTNode::Expr of
Leaves ==
    {"Verb", "Adverb", "Char", "Int", "Float", "Sym", "CharList", "IntList",
     "FloatList", "SymList", "Identifier"}

RECURSIVE Pow10(_)
Pow10(x) == IF x = 0 THEN 1 ELSE 10 * Pow10(x - 1)

\* the f64 of a token as the evaluator holds it
f64_of(d) == IF d[2] >= 0 THEN F64(d[1] * Pow10(d[2]), 1) ELSE F64(d[1], Pow10(-d[2]))

\* K0::Verb(v).into(), K0::Int(i).into(), ...: the K of a leaf token
K_from(tok) ==
    CASE tok.t = "Identifier" -> KName(tok.v)
      [] tok.t = "Float" -> KFloat(f64_of(tok.v))
      [] tok.t = "FloatList" -> KFloatList([i \in 1..Len(tok.v) |-> f64_of(tok.v[i])])
      [] OTHER -> K0(tok.t, tok.v)

\* Parser::new
Parser_new(tokens) == [tokens |-> tokens, i |-> 1]

POk(p, ast) == [p |-> p, ok |-> TRUE, ast |-> ast, location |-> 0, code |-> "none"]
PErr(p, location, code) ==
    [p |-> p, ok |-> FALSE, ast |-> None, location |-> location, code |-> code]

\* Ok(Some(ast)), the case extract_ast! goes on with
IsSome(r) == r.ok /\ r.ast # None

\* Peekable::peek, the variant of the token ahead
peek_kind(p) == IF p.i <= Len(p.tokens) THEN p.tokens[p.i].tok.t ELSE "None"

\* Peekable::next_if(|x| matches!(x.2, ..)), the pattern given as the set of
\* the variants it matches
tokens_next_if(p, kinds) ==
    IF peek_kind(p) \in kinds
    THEN [p |-> [p EXCEPT !.i = p.i + 1], some |-> TRUE, t |-> p.tokens[p.i]]
    ELSE [p |-> p, some |-> FALSE, t |-> NoItem]

RECURSIVE expr(_), subexpr(_), paren(_, _), bracket(_, _), expr_list(_, _),
          expr_list_loop(_, _, _)

\* Parser::expr, the arm of an infix verb: e1 verb e2, or e1 verb
expr_infix(e1, verb, e2) ==
    IF ~e2.ok THEN e2
    ELSE IF e2.ast # None
    THEN POk(e2.p, Apply(e1.s, e2.ast.e, verb, <<e1, e2.ast>>))
    ELSE POk(e2.p, Apply(e1.s, verb.e, verb, <<e1, None>>))

\* Parser::expr, the other arm: e1 e2, or e1 alone
expr_juxt(e1, e2) ==
    IF ~e2.ok THEN e2
    ELSE IF e2.ast # None
    THEN POk(e2.p, Apply(e1.s, e2.ast.e, e1, <<e2.ast>>))
    ELSE POk(e2.p, e1)

\* an expr whose infix verb takes one subexpression as its right operand
expr_verb_flat(e1, n) ==
    IF n.some
    THEN expr_infix(e1, Expr(n.t.s, n.t.e, KVerb(n.t.tok.v)), subexpr(n.p))
    ELSE expr_juxt(e1, expr(n.p))

\* Parser::expr, the match on next_if(Token::Verb(_))
expr_verb(e1, n) ==
    IF n.some
    THEN expr_infix(e1, Expr(n.t.s, n.t.e, KVerb(n.t.tok.v)), expr(n.p))
    ELSE expr_juxt(e1, expr(n.p))

\* Parser::expr, after extract_ast!(self.subexpr())
expr_rest(e1) ==
    IF ~IsSome(e1) THEN e1
    ELSE expr_verb(e1.ast, tokens_next_if(e1.p, {"Verb"}))

\* Parser::expr
expr(p) == expr_rest(subexpr(p))

\* Parser::subexpr, the match on the token taken
subexpr_token(p, t) ==
    CASE t.tok.t = "LtParen" -> paren(p, t.s)
      [] t.tok.t = "LtBracket" -> bracket(p, t.s)
      [] t.tok.t \in Leaves -> POk(p, Expr(t.s, t.e, K_from(t.tok)))
      [] OTHER -> POk(p, Expr(0, 0, KGenList(<<>>)))

\* Parser::subexpr, the match on next_if
subexpr_next(n) == IF ~n.some THEN POk(n.p, None) ELSE subexpr_token(n.p, n.t)

\* Parser::subexpr
subexpr(p) ==
    subexpr_next(tokens_next_if(p, TokenKinds \ {"Semi", "RtParen", "RtBracket"}))

\* a paren that keeps the parentheses of a single expression as a list
paren_close_list(start, l, n) ==
    IF ~n.some THEN PErr(n.p, start, "UnclosedParens")
    ELSE POk(n.p, Apply(start, n.t.e, Expr(start, start, KVerb("Comma")), l.list))

\* Parser::paren, the match on next_if(Token::RtParen)
paren_close(start, l, n) ==
    IF ~n.some THEN PErr(n.p, start, "UnclosedParens")
    ELSE IF Len(l.list) = 1 /\ l.list[1] # None THEN POk(n.p, l.list[1])
    ELSE IF Len(l.list) = 1 THEN POk(n.p, Expr(start, n.t.e, KGenList(<<>>)))
    ELSE POk(n.p, Apply(start, n.t.e, Expr(start, start, KVerb("Comma")), l.list))

\* Parser::paren, after self.expr_list(start)?
paren_list(start, l) ==
    IF ~l.ok THEN PErr(l.p, l.location, l.code)
    ELSE paren_close(start, l, tokens_next_if(l.p, {"RtParen"}))

\* Parser::paren
paren(p, start) == paren_list(start, expr_list(p, start))

\* Parser::bracket, the match on next_if(Token::RtBracket)
bracket_close(start, l, n) ==
    IF ~n.some THEN PErr(n.p, start, "UnclosedBrackets")
    ELSE POk(n.p, ExprList(start, n.t.e, l.list))

\* Parser::bracket, after self.expr_list(start)?
bracket_list(start, l) ==
    IF ~l.ok THEN PErr(l.p, l.location, l.code)
    ELSE bracket_close(start, l, tokens_next_if(l.p, {"RtBracket"}))

\* Parser::bracket
bracket(p, start) == bracket_list(start, expr_list(p, start))

\* Parser::expr_list, the match on next_if(Token::Semi) that ends the loop
expr_list_semi(list, end, n) ==
    IF n.some THEN expr_list_loop(n.p, list, n.t.e)
    ELSE [p |-> n.p, ok |-> TRUE, list |-> list, s |-> 0, e |-> end,
          location |-> 0, code |-> "none"]

\* Parser::expr_list, the match on self.expr()? that pushes a slot
expr_list_push(list, end, a) ==
    IF ~a.ok
    THEN [p |-> a.p, ok |-> FALSE, list |-> list, s |-> 0, e |-> end,
          location |-> a.location, code |-> a.code]
    ELSE expr_list_semi(Append(list, a.ast),
                        IF a.ast # None THEN a.ast.e ELSE end,
                        tokens_next_if(a.p, {"Semi"}))

\* Parser::expr_list, one turn of the loop
expr_list_loop(p, list, end) == expr_list_push(list, end, expr(p))

\* Parser::expr_list, the Spanned returned: from the start of the first
\* slot, or start when it is absent, to the end of the last slot, or the
\* end of the last semicolon when it is absent
expr_list_span(start, l) ==
    IF ~l.ok THEN l
    ELSE [l EXCEPT !.s = IF l.list[1] # None THEN l.list[1].s ELSE start,
                   !.e = IF l.list[Len(l.list)] # None
                         THEN l.list[Len(l.list)].e ELSE l.e]

\* Parser::expr_list
expr_list(p, start) == expr_list_span(start, expr_list_loop(p, <<>>, start))

\* Parser::program, after self.expr_list(0)? and tokens_iter.next()
program_rest(l, n) ==
    IF n.some THEN PErr(n.p, n.t.s, "UnexpectedToken")
    ELSE IF Len(l.list) = 1 THEN POk(n.p, l.list[1])
    ELSE POk(n.p, ExprList(l.s, l.e, l.list))

program_list(l) ==
    IF ~l.ok THEN PErr(l.p, l.location, l.code)
    ELSE program_rest(l, tokens_next_if(l.p, TokenKinds))

\* Parser::program
program(p) == program_list(expr_list(p, 0))

\* Parser::parse
parse(p) == program(p)

(***************************************************************************)
(* run() (main.rs): the input is tokenized to its end or to the first      *)
(* error, the tokens, if any, are parsed, and the AST, if any, is          *)
(* evaluated.  parseRes keeps how far the run came and the PResult.        *)
(***************************************************************************)
RECURSIVE collect(_, _, _, _)

\* collect::<Result<Vec<_>, _>>(), after one next()
collected(tokens, r) ==
    IF IsNone(r.item)
    THEN [T |-> r.T, I |-> r.I, ok |-> TRUE, tokens |-> tokens,
          yielded |-> tokens, log |-> r.log]
    ELSE IF ~r.item.ok
    THEN [T |-> r.T, I |-> r.I, ok |-> FALSE, tokens |-> tokens,
          yielded |-> Append(tokens, r.item), log |-> r.log]
    ELSE collect(r.T, r.I, Append(tokens, r.item), r.log)

\* Tokenizer::new(src).collect::<Result<Vec<_>, _>>()
collect(T, I, tokens, log) == collected(tokens, Tokenizer_next(T, I, log))

PResult(r) == [ok |-> r.ok, ast |-> r.ast, location |-> r.location, code |-> r.code]

\* run(), the match on ast.interpret()
Interpreted(c, r, out) ==
    /\ parseRes' = [res |-> "parsed", r |-> PResult(r)]
    /\ GLOBAL_ENV' = out.w.env
    /\ INTERNER' = out.w.I
    /\ prevEnv' = GLOBAL_ENV
    /\ evalAst' = r.ast
    /\ evalRes' = out.r
    /\ evalLog' = out.w.log
    /\ assigned' = Replay(assigned, out.w.log, 1)

\* run(), the match on Parser::new(tokens).parse()
Parsed(c, r) ==
    IF IsSome(r)
    THEN Interpreted(c, r, interpret(r.ast, [env |-> GLOBAL_ENV, I |-> c.I,
                                             log |-> <<>>]))
    ELSE /\ parseRes' = [res |-> "parsed", r |-> PResult(r)]
         /\ INTERNER' = c.I
         /\ UNCHANGED evalVars

\* run(), the match on the collected tokens
Collected(c) ==
    /\ tokenizer' = c.T
    /\ items' = c.yielded
    /\ steps' = c.log
    /\ atEnd' = c.ok
    /\ IF c.ok /\ c.tokens # <<>>
       THEN Parsed(c, parse(Parser_new(c.tokens)))
       ELSE /\ parseRes' = [res |-> IF c.ok THEN "no tokens" ELSE "tokenizer error"]
            /\ INTERNER' = c.I
            /\ UNCHANGED evalVars

\* run(src), once in a process (run_file)
Run(input) ==
    /\ parseRes.res = "none"
    /\ Collected(collect(Tokenizer_new(input), INTERNER, <<>>, <<>>))
    /\ UNCHANGED <<issued, lastName, lastSym, arithVars, streamVars, threadVars>>

\* the process before run(): nothing interned, nothing bound
InitRun ==
    /\ INTERNER = Interner_new
    /\ issued = {}
    /\ lastName = <<>>
    /\ lastSym = -1
    /\ EvalIdle
    /\ ArithIdle
    /\ TokIdle
    /\ StreamIdle
    /\ ParseIdle
    /\ ThreadsIdle

(***************************************************************************)
(* SpecParse: run() on every input of up to MaxExprLen bytes made of       *)
(* digits, two verbs and a letter.                                         *)
(***************************************************************************)
ExprBytes == {B("1"), B("2"), B("3"), B("*"), B("+"), B("a")}

ExprInputs == SeqsUpTo(ExprBytes, MaxExprLen)

NextParse == parseRes.res = "none" /\ \E input \in ExprInputs : Run(input)

SpecParse == InitRun /\ [][NextParse]_vars

(***************************************************************************)
(* SpecGroups: run() on every input of up to MaxGroupLen bytes made of     *)
(* parentheses, brackets, braces, the semicolon, a digit and a verb.       *)
(***************************************************************************)
GroupBytes ==
    {B("("), B(")"), B("["), B("]"), B("{"), B(";"), B("1"), B("+")}

GroupInputs == SeqsUpTo(GroupBytes, MaxGroupLen)

NextGroups == parseRes.res = "none" /\ \E input \in GroupInputs : Run(input)

SpecGroups == InitRun /\ [][NextGroups]_vars

(***************************************************************************)
(* Claims about the parser, checked under SpecParse and SpecGroups.  When  *)
(* the run came to the parse, items are the tokens the parser was given.   *)
(***************************************************************************)
ParsedOk(ast) == [ok |-> TRUE, ast |-> ast, location |-> 0, code |-> "none"]
ParsedErr(location, code) ==
    [ok |-> FALSE, ast |-> None, location |-> location, code |-> code]

\* the leaf node of token i
Leaf(i) == Expr(items[i].s, items[i].e, K_from(items[i].tok))

\* the tokens are leaves with a verb at each of the places vs
LeafTokens(n, vs) ==
    /\ parseRes.res = "parsed"
    /\ Len(items) = n
    /\ \A i \in 1..n : items[i].tok.t \in Leaves
    /\ \A i \in vs : items[i].tok.t = "Verb"

\* the value of x v y for two integers and the verb * or +
Arith(v, x, y) == IF v = "Star" THEN x * y ELSE x + y

\* C22: the tokens a v b w c, v and w verbs, parse as
\* Apply(v, [a, Apply(w, [b, c])]) whatever the verbs are, and a v as
\* Apply(v, [a, absent]); with integer operands a v b w c evaluates to
\* a v (b w c), so 2*3+1 to 8.
C22_RightToLeft ==
    /\ LeafTokens(5, {2, 4}) =>
          /\ parseRes.r =
                ParsedOk(Apply(items[1].s, items[5].e, Leaf(2),
                               <<Leaf(1),
                                 Apply(items[3].s, items[5].e, Leaf(4),
                                       <<Leaf(3), Leaf(5)>>)>>))
          /\ (\A i \in {1, 3, 5} : items[i].tok.t = "Int") =>
                evalRes = ROk(KInt(Arith(items[2].tok.v, items[1].tok.v,
                                         Arith(items[4].tok.v, items[3].tok.v,
                                               items[5].tok.v))))
    /\ LeafTokens(2, {2}) =>
          parseRes.r = ParsedOk(Apply(items[1].s, items[2].e, Leaf(2),
                                      <<Leaf(1), None>>))
    /\ src = <<B("2"), B("*"), B("3"), B("+"), B("1")>> => evalRes = ROk(KInt(8))

\* 2*3+1 was run and its value is 8, not 7
C22_Witness ==
    /\ src = <<B("2"), B("*"), B("3"), B("+"), B("1")>>
    /\ LeafTokens(5, {2, 4})
    /\ evalLog # <<>>
    /\ evalRes = ROk(KInt(8))

\* the error of the group opened by token j when it is not closed
Unclosed(j) ==
    [code |-> IF items[j].tok.t = "LtParen" THEN "UnclosedParens"
              ELSE "UnclosedBrackets",
     location |-> items[j].s]

\* the reading of the tokens from the i-th on as nested groups, open being
\* the tokens that opened the groups not yet closed, the innermost last:
\* the first closing token that does not close the innermost open group,
\* or the end of the input inside a group, is the error of that group; a
\* closing token outside every group is unexpected
RECURSIVE Nesting(_, _)
Nesting(i, open) ==
    IF i > Len(items)
    THEN IF open = <<>> THEN [code |-> "none", location |-> 0]
         ELSE Unclosed(open[Len(open)])
    ELSE CASE items[i].tok.t \in {"LtParen", "LtBracket"} ->
                Nesting(i + 1, Append(open, i))
           [] items[i].tok.t \in {"RtParen", "RtBracket"} ->
                IF open = <<>>
                THEN [code |-> "UnexpectedToken", location |-> items[i].s]
                ELSE IF (items[open[Len(open)]].tok.t = "LtParen")
                            = (items[i].tok.t = "RtParen")
                THEN Nesting(i + 1, SubSeq(open, 1, Len(open) - 1))
                ELSE Unclosed(open[Len(open)])
           [] OTHER -> Nesting(i + 1, open)

\* the groups open after token i
Depth(i) ==
    Cardinality({j \in 1..i : items[j].tok.t \in {"LtParen", "LtBracket"}})
        - Cardinality({j \in 1..i : items[j].tok.t \in {"RtParen", "RtBracket"}})

\* the input is one parenthesised group: well nested, with the first token
\* a ( that the last token closes
WholeGroup ==
    /\ parseRes.res = "parsed"
    /\ Len(items) >= 2
    /\ items[1].tok.t = "LtParen"
    /\ items[Len(items)].tok.t = "RtParen"
    /\ Nesting(1, <<>>).code = "none"
    /\ \A i \in 1..(Len(items) - 1) : Depth(i) >= 1

\* the semicolons that separate the slots of the group, and with them the
\* two parentheses, in source order
Separators ==
    {1, Len(items)} \cup
        {i \in 2..(Len(items) - 1) : items[i].tok.t = "Semi" /\ Depth(i) = 1}

Cuts ==
    CHOOSE f \in [1..Cardinality(Separators) -> Separators] :
        \A i, j \in DOMAIN f : i < j => f[i] < f[j]

SlotCount == Cardinality(Separators) - 1

SlotTokens(j) == SubSeq(items, Cuts[j] + 1, Cuts[j + 1] - 1)

\* what the tokens of slot j are when parsed on their own: the expression,
\* or None for a slot without tokens
SlotNode(j) == parse(Parser_new(SlotTokens(j))).ast

\* the slots decide what a group is: () the empty general list, one present
\* expression that expression, two or more slots the comma verb applied to
\* the slots in source order, absent ones kept
GroupBySlots ==
    WholeGroup =>
        LET open == items[1].s
            close == items[Len(items)].e
        IN  IF SlotCount = 1 /\ SlotTokens(1) = <<>>
            THEN parseRes.r = ParsedOk(Expr(open, close, KGenList(<<>>)))
            ELSE IF SlotCount = 1
            THEN parseRes.r = ParsedOk(SlotNode(1))
            ELSE parseRes.r =
                     ParsedOk(Apply(open, close, Expr(open, open, KVerb("Comma")),
                                    [j \in 1..SlotCount |-> SlotNode(j)]))

\* C23 as claimed: a group parses by its slots, and every ( that no ) follows
\* makes the parse fail with UnclosedParens located at that (.
C23_EveryUnclosedParen ==
    /\ GroupBySlots
    /\ parseRes.res = "parsed" =>
          \A i \in 1..Len(items) :
              (/\ items[i].tok.t = "LtParen"
               /\ \A j \in (i + 1)..Len(items) : items[j].tok.t # "RtParen") =>
                  parseRes.r = ParsedErr(items[i].s, "UnclosedParens")

\* C23 amended: a group parses by its slots; the parse fails exactly when
\* the tokens are not well nested, and the error is that of the innermost
\* group open where the nesting breaks: UnclosedParens located at its ( when
\* that group is a parenthesis, UnclosedBrackets located at its [ when it
\* is a bracket.  A ( around it that is not closed either is not reported.
C23_InnermostUnclosed ==
    /\ GroupBySlots
    /\ parseRes.res = "parsed" =>
          [code |-> parseRes.r.code, location |-> parseRes.r.location]
              = Nesting(1, <<>>)

\* in (;( the outer group has two slots and neither parenthesis is closed:
\* the error is located at the inner one, offset 2
C23_Witness ==
    /\ src = <<B("("), B(";"), B("(")>>
    /\ parseRes.res = "parsed"
    /\ parseRes.r = ParsedErr(2, "UnclosedParens")

\* the callee and the present arguments or elements of a composite node
Children(node) ==
    CASE node.kind = "Apply" ->
             {node.value} \cup {node.args[i] : i \in Present(node.args)}
      [] node.kind = "ExprList" ->
             {node.elist[i] : i \in Present(node.elist)}
      [] OTHER -> {}

Covers(node, child) == node.s <= child.s /\ child.e <= node.e

\* C28: in every tree the parser produces, whatever the tokens, an Apply or
\* ExprList node starts at or before, and ends at or after, its callee and
\* each of its present arguments or elements.
C28_SpansCover ==
    (parseRes.res = "parsed" /\ parseRes.r.ok) =>
        \A node \in NodesOf(parseRes.r.ast) :
            \A child \in Children(node) : Covers(node, child)

\* the same for the inputs in which no brace occurs
SpansCoverWithoutBraces ==
    (\A i \in 1..Len(items) : items[i].tok.t \notin {"LtBrace", "RtBrace"})
        => C28_SpansCover

\* the offset at which the next call of next() starts reading
Cursor == next_index(tokenizer.stream)

\* a call of next() returns an item only after moving the cursor forward,
\* and a call that finds the cursor at the end of the input reports the end
Advances ==
    [][/\ atEnd' \/ next_index(tokenizer'.stream) > Cursor
       /\ Cursor = Len(src) => atEnd']_vars

\* inside the calls the loop dispatches on bytes further and further on,
\* the bytes of whitespace and comments included, and the cursor is left
\* past the last of them
Dispatches ==
    /\ \A j, k \in 1..Len(steps) : j < k => steps[j].at < steps[k].at
    /\ \A k \in 1..Len(steps) : steps[k].at < Cursor

\* C29: every call of next() reports the end of the input or leaves the
\* cursor at least one byte further than it found it, whatever it returns
\* and whatever it skipped or looked ahead at; the cursor never passes the
\* end, where the next call reports the end of the input, so that an input
\* of n bytes yields at most n items in at most n + 1 calls.
C29_Terminates ==
    /\ Advances
    /\ [](Dispatches /\ Len(items) <= Len(src) /\ Cursor <= Len(src))

\* on `1 /` number() looks past the space and goes back, and the next call
\* skips the space and the comment before it reports the end
C29_Witness ==
    /\ src = <<B("1"), B(" "), B("/")>>
    /\ atEnd
    /\ Len(items) = 1
    /\ [k \in 1..Len(steps) |-> steps[k].what] = <<"item", "whitespace", "comment">>

(***************************************************************************)
(* Claims about the blocks of the interner, checked under SpecIntern.  A   *)
(* Vec whose length passed its capacity is one that was reallocated.       *)
(***************************************************************************)
IsPrefix(x, y) == Len(x) <= Len(y) /\ SubSeq(y, 1, Len(x)) = x

Blocks(I) == Append(I.rest, I.head)

\* no block ever held more than the capacity it was created with
NeverReallocated ==
    \A k \in 1..Len(Blocks(INTERNER)) :
        Len(Blocks(INTERNER)[k].buf) <= Blocks(INTERNER)[k].cap

\* an intern either leaves the head in place, appending to it within its
\* capacity, or retires it unchanged and makes a head that is larger than
\* the string and holds nothing else
HeadStep ==
    \/ /\ INTERNER'.rest = INTERNER.rest
       /\ INTERNER'.head.cap = INTERNER.head.cap
       /\ IsPrefix(INTERNER.head.buf, INTERNER'.head.buf)
    \/ /\ INTERNER'.rest = Append(INTERNER.rest, INTERNER.head)
       /\ Len(lastName') > INTERNER.head.cap - Len(INTERNER.head.buf)
       /\ INTERNER'.head.cap > Len(lastName')
       /\ INTERNER'.head.buf = lastName'

\* the slices recorded stay recorded, as they were, and refer to the bytes
\* they referred to
SlicesStep ==
    /\ IsPrefix(INTERNER.vec, INTERNER'.vec)
    /\ INTERNER.map \subseteq INTERNER'.map
    /\ \A k \in 1..Len(INTERNER.vec) :
          Deref(INTERNER', INTERNER.vec[k]) = Deref(INTERNER, INTERNER.vec[k])

\* C27: blocks are never reallocated or moved.  Every append to the head
\* fits the capacity the block was created with, a string that does not fit
\* retires the head and gets a fresh block with capacity greater than its
\* length, retired blocks stay as they were, and the slice recorded for
\* every issued handle refers to the bytes that were interned.
C27_BlocksStable ==
    /\ [](NeverReallocated /\
          \A p \in issued : Deref(INTERNER, INTERNER.vec[p[2] + 1]) = p[1])
    /\ [][HeadStep /\ SlicesStep]_vars

\* two heads retired, the second filled to its last byte, and the string
\* that did not fit alone in the third
C27_Witness ==
    /\ Len(INTERNER.rest) = 2
    /\ Len(INTERNER.rest[2].buf) = INTERNER.rest[2].cap
    /\ INTERNER.head.buf = lastName
    /\ Cardinality(issued) = 3

(***************************************************************************)
(* SpecFailures: top-level evaluations of assignments that complete, of    *)
(* assignments whose right-hand side fails or is absent, and of lists and  *)
(* applications that mix them with a failing expression.                   *)
(***************************************************************************)
\* x:1+"a"  y:1+"a"  x:
FailedAssigns ==
    {Infix("Colon", X, TypeErrorShape), Infix("Colon", Y, TypeErrorShape),
     Infix("Colon", X, NoneSh)}

\* x:1  x:2  y:2
DoneAssigns ==
    {Infix("Colon", X, One), Infix("Colon", X, Two), Infix("Colon", Y, Two)}

\* the slots of the enumerated lists: x:1+"a"  x:  x:2  y:2  1+"a"
FailureSlots ==
    {Infix("Colon", X, TypeErrorShape), Infix("Colon", X, NoneSh),
     Infix("Colon", X, Two), Infix("Colon", Y, Two), TypeErrorShape}

FailureLists == {l \in SeqsUpTo(FailureSlots, MaxSlots) : Len(l) >= 2}

\* x:(x:1)+"a" (the inner assignment completes, then + fails), x:y:1+"a",
\* (x:1)+1+"a", (1+"a")+x:1 and [x:2; y:1+"a"]
FailureShapes ==
    FailedAssigns \cup DoneAssigns
        \cup {Prog(l) : l \in FailureLists}
        \cup {Infix("Colon", X, Infix("Plus", Group(Infix("Colon", X, One)), CharA)),
              Infix("Colon", X, Infix("Colon", Y, TypeErrorShape)),
              Infix("Plus", Group(Infix("Colon", X, One)), TypeErrorShape),
              Infix("Plus", Group(TypeErrorShape), Infix("Colon", X, One)),
              Bracket(<<Infix("Colon", X, Two), Infix("Colon", Y, TypeErrorShape)>>)}

FailureASTs == {Build(sh, 0).node : sh \in FailureShapes}

NextFailures == \E ast \in FailureASTs : Eval(ast)

SpecFailures == Init /\ [][NextFailures]_vars

\* the binding of a name: its value, or nothing
Binding(env, n) == IF n \in DOMAIN env THEN <<env[n]>> ELSE <<>>

\* the assignments to n that completed in the last evaluation: those whose
\* right-hand side was evaluated and did not fail
Completed(n) ==
    {a \in EvaluatedNodes :
        /\ AssignsName(a)
        /\ a.args[1].k.v = n
        /\ a.args[2] # None
        /\ EvaluatedOk(a.args[2])}

LastCompleted(n) ==
    CHOOSE a \in Completed(n) : \A b \in Completed(n) : ExitPos(b) <= ExitPos(a)

\* the assignments that were evaluated and did not complete
Failed ==
    {a \in EvaluatedNodes :
        AssignsName(a) /\ (a.args[2] = None \/ ~EvaluatedOk(a.args[2]))}

\* C30: when a top-level evaluation fails with a runtime error the
\* environment holds its previous bindings and those of the assignments
\* that completed before the error, nothing being undone; an assignment
\* whose right-hand side fails, or is absent (ExpressionExpected), returns
\* the error and does not bind its target.
C30_NoRollback ==
    /\ (evalAst # None /\ ~evalRes.ok /\ evalRes.e # "panic") =>
          /\ DOMAIN GLOBAL_ENV \subseteq Names
          /\ \A n \in Names :
                Binding(GLOBAL_ENV, n) =
                    IF Completed(n) = {} THEN Binding(prevEnv, n)
                    ELSE <<ExitRes(LastCompleted(n).args[2]).v>>
    /\ \A a \in Failed :
          /\ ExitRes(a) = (IF a.args[2] = None THEN RErr(a.s, "ExpressionExpected")
                           ELSE ExitRes(a.args[2]))
          /\ ~ExitRes(a).ok
          /\ \A k \in DefinesIn(EnterPos(a), ExitPos(a)) :
                \E b \in NodesOf(a.args[2]) :
                    /\ b \in Completed(evalLog[k].name)
                    /\ evalLog[k].value = ExitRes(b.args[2]).v

\* x:2; x:1+"a" evaluated while x was bound to 1: the list fails with the
\* Type error and x is left bound to 2
C30_Witness ==
    /\ evalAst = Build(Prog(<<Infix("Colon", X, Two),
                              Infix("Colon", X, TypeErrorShape)>>), 0).node
    /\ SymX \in DOMAIN prevEnv
    /\ prevEnv[SymX] = KInt(1)
    /\ ~evalRes.ok
    /\ evalRes.e = "Type"
    /\ GLOBAL_ENV[SymX] = KInt(2)

(***************************************************************************)
(* SpecThreads: MaxThreads threads that call Sym::new and read symbols     *)
(* (Display, Ord::cmp) in any interleaving.  INTERNER is the one static    *)
(* behind the RwLock; a step is one statement of Interner::intern or one   *)
(* lock operation.  A thread is [pc, name, slice, sym, args, out].         *)
(***************************************************************************)
ThreadIds == 1..MaxThreads

ThreadNames == {<<97>>, <<98>>}

NoSlice == [blk |-> 0, start |-> 0, len |-> 0]

\* what a lookup reads when vec has no entry for the handle (the index
\* panics)
Unrecorded == <<-1>>

IdleThread ==
    [pc |-> "idle", name |-> <<>>, slice |-> NoSlice, sym |-> -1,
     args |-> <<>>, out |-> <<>>]

\* RwLock::write is granted without waiting for the lock to be free
can_write_unlocked(l) == TRUE

\* RwLock::write is granted when no thread holds the lock
can_write(l) == l.writer = 0 /\ l.readers = {}

\* RwLock::read is granted when no thread holds the lock for writing
can_read(l) == l.writer = 0

InitThreads ==
    /\ INTERNER = Interner_new
    /\ issued = {}
    /\ lastName = <<>>
    /\ lastSym = -1
    /\ threads = [t \in ThreadIds |-> IdleThread]
    /\ rwlock = [writer |-> 0, readers |-> {}]
    /\ EvalIdle
    /\ ArithIdle
    /\ TokIdle
    /\ StreamIdle
    /\ ParseIdle

ThreadFrame == <<lastName, lastSym, evalVars, arithVars, tokVars, streamVars, parseRes>>

\* Sym::new(name): INTERNER.write()
Write(t, name) ==
    /\ threads[t].pc = "idle"
    /\ can_write(rwlock)
    /\ rwlock' = [rwlock EXCEPT !.writer = t]
    /\ threads' = [threads EXCEPT ![t] = [IdleThread EXCEPT !.pc = "get", !.name = name]]
    /\ UNCHANGED <<INTERNER, issued, ThreadFrame>>

\* intern: if let Some(&sym) = self.map.get(name) { return sym; }
MapGet(t) ==
    /\ threads[t].pc = "get"
    /\ threads' =
          [threads EXCEPT ![t] =
              IF map_get(INTERNER, threads[t].name) # {}
              THEN [@ EXCEPT !.pc = "return",
                             !.sym = (CHOOSE e \in map_get(INTERNER, threads[t].name) : TRUE).sym]
              ELSE [@ EXCEPT !.pc = "alloc"]]
    /\ UNCHANGED <<INTERNER, issued, rwlock, ThreadFrame>>

\* intern: let name = self.alloc(name)
Alloc(t) ==
    /\ threads[t].pc = "alloc"
    /\ Len(INTERNER.vec) < MaxInterns
    /\ INTERNER' = alloc(INTERNER, threads[t].name).I
    /\ threads' = [threads EXCEPT ![t] =
                      [@ EXCEPT !.pc = "insert",
                                !.slice = alloc(INTERNER, threads[t].name).slice]]
    /\ UNCHANGED <<issued, rwlock, ThreadFrame>>

\* intern: let sym = Sym(self.vec.len()); self.map.insert(name, sym)
Insert(t) ==
    /\ threads[t].pc = "insert"
    /\ INTERNER' = [INTERNER EXCEPT
                       !.map = @ \cup {[key |-> threads[t].slice,
                                        sym |-> Len(INTERNER.vec)]}]
    /\ threads' = [threads EXCEPT ![t] =
                      [@ EXCEPT !.pc = "push", !.sym = Len(INTERNER.vec)]]
    /\ UNCHANGED <<issued, rwlock, ThreadFrame>>

\* intern: self.vec.push(name)
Push(t) ==
    /\ threads[t].pc = "push"
    /\ INTERNER' = [INTERNER EXCEPT !.vec = Append(@, threads[t].slice)]
    /\ threads' = [threads EXCEPT ![t] = [@ EXCEPT !.pc = "return"]]
    /\ UNCHANGED <<issued, rwlock, ThreadFrame>>

\* Sym::new returns the handle; the write guard is dropped
Return(t) ==
    /\ threads[t].pc = "return"
    /\ issued' = issued \cup {<<threads[t].name, threads[t].sym>>}
    /\ rwlock' = [rwlock EXCEPT !.writer = IF @ = t THEN 0 ELSE @]
    /\ threads' = [threads EXCEPT ![t] = IdleThread]
    /\ UNCHANGED <<INTERNER, ThreadFrame>>

\* the handles a thread can have: those Sym::new has returned
Handles == {p[2] : p \in issued}

\* what is read of symbols: one for Display and Debug, two different ones
\* for Ord::cmp (equal handles compare Equal without the lock)
ReadArgs ==
    {<<a>> : a \in Handles} \cup
        {p \in {<<a, b>> : a \in Handles, b \in Handles} : p[1] # p[2]}

\* fmt and cmp: INTERNER.read()
Read(t, args) ==
    /\ threads[t].pc = "idle"
    /\ can_read(rwlock)
    /\ rwlock' = [rwlock EXCEPT !.readers = @ \cup {t}]
    /\ threads' = [threads EXCEPT ![t] = [IdleThread EXCEPT !.pc = "lookup", !.args = args]]
    /\ UNCHANGED <<INTERNER, issued, ThreadFrame>>

\* lock.lookup(..) of every handle read
Lookup(t) ==
    /\ threads[t].pc = "lookup"
    /\ threads' =
          [threads EXCEPT ![t] =
              [@ EXCEPT !.pc = "read",
                        !.out = [i \in 1..Len(threads[t].args) |->
                                    IF threads[t].args[i] < Len(INTERNER.vec)
                                    THEN lookup(INTERNER, threads[t].args[i])
                                    ELSE Unrecorded]]]
    /\ UNCHANGED <<INTERNER, issued, rwlock, ThreadFrame>>

\* the read guard is dropped
Done(t) ==
    /\ threads[t].pc = "read"
    /\ rwlock' = [rwlock EXCEPT !.readers = @ \ {t}]
    /\ threads' = [threads EXCEPT ![t] = IdleThread]
    /\ UNCHANGED <<INTERNER, issued, ThreadFrame>>

NextThreads ==
    \E t \in ThreadIds :
        \/ \E name \in ThreadNames : Write(t, name)
        \/ MapGet(t)
        \/ Alloc(t)
        \/ Insert(t)
        \/ Push(t)
        \/ Return(t)
        \/ \E args \in ReadArgs : Read(t, args)
        \/ Lookup(t)
        \/ Done(t)

SpecThreads == InitThreads /\ [][NextThreads]_vars

\* the threads inside intern, and those inside a read
Writing == {t \in ThreadIds : threads[t].pc \in {"get", "alloc", "insert", "push", "return"}}
Reading == {t \in ThreadIds : threads[t].pc \in {"lookup", "read"}}

\* the bytes that were interned for a handle
BytesOf(sym) == (CHOOSE p \in issued : p[2] = sym)[1]

\* C24: in every interleaving of Sym::new calls and symbol reads, an intern
\* runs its check and its insert with no other thread inside the interner,
\* and what its check found stays true until it has inserted; equal byte
\* strings get the same handle and different ones different handles; a
\* reader finds the bytes of every handle it reads recorded.
C24_AtomicIntern ==
    /\ Cardinality(Writing) <= 1
    /\ Writing # {} => Reading = {}
    /\ \A t \in ThreadIds :
          /\ threads[t].pc \in {"alloc", "insert"} =>
                map_get(INTERNER, threads[t].name) = {}
          /\ threads[t].pc = "push" =>
                map_get(INTERNER, threads[t].name) =
                    {[key |-> threads[t].slice, sym |-> threads[t].sym]}
          /\ threads[t].pc = "read" =>
                threads[t].out =
                    [i \in 1..Len(threads[t].args) |-> BytesOf(threads[t].args[i])]
    /\ \A p, q \in issued : (p[1] = q[1]) <=> (p[2] = q[2])
    /\ \A p \in issued : lookup(INTERNER, p[2]) = p[1]

\* one thread is inside intern, between its check and its insert, of a
\* string not interned yet, while another has been handed a handle and
\* is idle: it cannot read until the first has returned
C24_Witness ==
    /\ \E t \in ThreadIds : threads[t].pc = "insert"
    /\ issued # {}
    /\ ~can_read(rwlock)
    /\ \E t \in ThreadIds : threads[t].pc = "idle"

====
